---- MODULE Spec2Model ----
(***************************************************************************)
(* Tiered image resolver of gun-roster-data: image_resolver.py (the        *)
(* "search" variant, Bing APIs) and image_resolver_free.py (the "free"     *)
(* variant, local index and path heuristics).                              *)
(*                                                                         *)
(* Strings are sequences of one-character strings.  An Optional[str] is    *)
(* None (the empty tuple) or Some(s) (the one-element tuple holding s).    *)
(* URLs of the network are opaque names; what a request returns is chosen  *)
(* by the environment when the request is made.                            *)
(***************************************************************************)
EXTENDS Integers, Sequences, FiniteSets, TLC

VARIABLES
    variant,    \* "search" (image_resolver.py) or "free" (image_resolver_free.py)
    caps,       \* module globals: [opencv, pil, key] (OPENCV_OK, PIL_OK, BING_API_KEY set)
    g,          \* the GunRecord being resolved
    overrides,  \* contents of image_overrides.json: set of [k, v]
    index,      \* contents of data/oem_image_index.json: sequence of [k, image]
    allowfile,  \* contents of config/allowlists.json
    fs,         \* the file at the destination path: [state, by]
    pc,         \* position in resolve_image / in the validator harness
    tier,       \* tier whose loop is running
    pages,      \* page URLs of the running tier still to be fetched
    cands,      \* candidate image URLs still to be tried
    seen,       \* _pick_first_valid's seen set, empty when no call of it is running
    nreq,       \* history: number of HTTP requests issued by this call
    lastTier,   \* history: tier that issued the last HTTP request
    accepted,   \* history: the first validator call that returned True: [n, tier, url]
    result,     \* the returned pair, once returned
    vresp,      \* harness of one function: the input the function was given
    vret,       \* harness of one function: what the function returned
    dest,       \* the destination path resolve_image computed
    dl,         \* history: image URLs the running tier has downloaded so far
    batch,      \* integrate_images.main: [n, limit, i, out, hits, miss, state]
    crawl,      \* oem_indexer.main: [brand, domain, max, urls, candidates, fetched, out, loaded]
    nav,        \* update_handguns.safe_goto: [attempts, i, gotos, waits, last_err, raised]
    scrape      \* GoogleImageScraper.find_image_urls: the loop's variables

vars == <<nav, scrape, crawl, variant, caps, g, overrides, index, allowfile, fs, pc, tier, pages, cands,
          seen, nreq, lastTier, accepted, result, vresp, vret, dest, dl, batch>>

(***************************************************************************)
(* Bounds of the model.                                                    *)
(***************************************************************************)
MaxPages == 2
MaxBatch == 3
MaxCands == 2

(***************************************************************************)
(* Program constants.                                                      *)
(***************************************************************************)
MinBytes == 30000
MIN_EDGE == 900

None == <<>>
Some(s) == <<s>>

\* `x or ""` of an Optional[str]
OrEmpty(x) == IF x = None THEN <<>> ELSE x[1]

Whitespace == {" ", "\t", "\n", "\r"}

RECURSIVE LStrip(_)
LStrip(s) ==
    IF s # <<>> /\ Head(s) \in Whitespace THEN LStrip(Tail(s)) ELSE s

RECURSIVE RStrip(_)
RStrip(s) ==
    IF s # <<>> /\ s[Len(s)] \in Whitespace
    THEN RStrip(SubSeq(s, 1, Len(s) - 1))
    ELSE s

\* str.strip()
Strip(s) == RStrip(LStrip(s))

MinOf(a, b) == IF a < b THEN a ELSE b
MaxOf(a, b) == IF a > b THEN a ELSE b

(***************************************************************************)
(* The image validator.                                                    *)
(*                                                                         *)
(* A response is [status, c]: status "ok" (2xx) or "fail" (timeout,        *)
(* connection error, non-2xx), and c the content served:                   *)
(*   len    byte length                                                    *)
(*   dec    cv2 decoding: "ok", "none" (imdecode gives None) or "raise"    *)
(*   w, h   decoded width and height                                       *)
(*   faces  Haar cascade: "none", "some" or "raise"                        *)
(*   wr     dest_path.write_bytes: "ok", "openfail" (nothing written) or   *)
(*          "partial" (the file was opened and the write failed)           *)
(*   pil    PIL re-encoding: "ok", "decodefail" (Image.open/convert/       *)
(*          exif_transpose raises) or "savefail" (im.save raises after     *)
(*          opening the destination)                                       *)
(***************************************************************************)
NoUrl == <<>>
NoFile == [state |-> "absent", by |-> NoUrl]
OldFile == [state |-> "old", by |-> NoUrl]

\* len(content) < 30_000
TooSmall_le(c) == c.len <= MinBytes
TooSmall(c) == c.len < MinBytes

\* img is None or img.size == 0   (size = h * w * 3 channels)
NoImage(c) == c.dec = "none" \/ c.h * c.w * 3 = 0

\* min(h, w) < 900
EdgeTooShort_le(c) == MinOf(c.h, c.w) <= MIN_EDGE
EdgeTooShort(c) == MinOf(c.h, c.w) < MIN_EDGE

(***************************************************************************)
(* aspect = w / max(h, 1); aspect < 0.8 or aspect > 2.2.  The quotient of  *)
(* two ints is the correctly rounded double, and 0.8 and 2.2 are the       *)
(* correctly rounded 4/5 and 11/5: for heights below 2^50 a ratio other    *)
(* than 4/5 differs from it by at least 1/(5h), more than an ulp, so the   *)
(* float comparison decides as the rational one does.                      *)
(***************************************************************************)
AspectOutOfBand_strict(c) ==
    \/ 5 * c.w <= 4 * MaxOf(c.h, 1)
    \/ 5 * c.w >= 11 * MaxOf(c.h, 1)
AspectOutOfBand(c) ==
    \/ 5 * c.w < 4 * MaxOf(c.h, 1)
    \/ 5 * c.w > 11 * MaxOf(c.h, 1)

\* the face rejection block: only image_resolver.py has it; an exception
\* inside it is swallowed
FaceReject(v, c) == v = "search" /\ c.faces = "some"

\* the `if OPENCV_OK` block: TRUE when it returns False
ShapeReject(v, c) ==
    \/ c.dec = "raise"
    \/ NoImage(c)
    \/ EdgeTooShort(c)
    \/ AspectOutOfBand(c)
    \/ FaceReject(v, c)

\* _strip_exif_and_save(content, dest_path): [ret, fs]
StripExifAndSave_noOverwrite(k, c, url, f) ==
    IF f.state = "absent"
    THEN [ret |-> "True", fs |-> [state |-> "orig", by |-> url]]
    ELSE [ret |-> "False", fs |-> f]
StripExifAndSave(k, c, url, f) ==
    CASE c.wr = "openfail" -> [ret |-> "False", fs |-> f]
      [] c.wr = "partial"  -> [ret |-> "False", fs |-> [state |-> "partial", by |-> url]]
      [] OTHER ->
           IF ~k.pil THEN [ret |-> "True", fs |-> [state |-> "orig", by |-> url]]
           ELSE CASE c.pil = "ok" ->
                       [ret |-> "True", fs |-> [state |-> "jpeg", by |-> url]]
                  [] c.pil = "decodefail" ->
                       [ret |-> "False", fs |-> [state |-> "orig", by |-> url]]
                  [] OTHER ->
                       [ret |-> "False", fs |-> [state |-> "partial", by |-> url]]

\* _download_and_validate(url, dest_path): [ret, fs], ret "True", "False" or
\* "raise" (requests.get or raise_for_status raised)
DownloadAndValidate_noWrite(v, k, resp, url, f) ==
    IF resp.status # "ok" THEN [ret |-> "raise", fs |-> f]
    ELSE IF TooSmall(resp.c) THEN [ret |-> "False", fs |-> f]
    ELSE IF k.opencv /\ ShapeReject(v, resp.c) THEN [ret |-> "False", fs |-> f]
    ELSE [ret |-> StripExifAndSave(k, resp.c, url, f).ret, fs |-> f]
DownloadAndValidate(v, k, resp, url, f) ==
    IF resp.status # "ok" THEN [ret |-> "raise", fs |-> f]
    ELSE IF TooSmall(resp.c) THEN [ret |-> "False", fs |-> f]
    ELSE IF k.opencv /\ ShapeReject(v, resp.c) THEN [ret |-> "False", fs |-> f]
    ELSE StripExifAndSave(k, resp.c, url, f)

(***************************************************************************)
(* Strings.                                                                *)
(***************************************************************************)
UpperCase == <<"A", "B", "C", "D", "E", "F", "G", "H", "I", "J", "K", "L", "M",
               "N", "O", "P", "Q", "R", "S", "T", "U", "V", "W", "X", "Y", "Z">>
LowerCase == <<"a", "b", "c", "d", "e", "f", "g", "h", "i", "j", "k", "l", "m",
               "n", "o", "p", "q", "r", "s", "t", "u", "v", "w", "x", "y", "z">>
Digits == {"0", "1", "2", "3", "4", "5", "6", "7", "8", "9"}

LowerChar(c) ==
    IF \E i \in 1..26 : UpperCase[i] = c
    THEN LowerCase[CHOOSE i \in 1..26 : UpperCase[i] = c]
    ELSE c

\* str.lower()
Lower(s) == [i \in 1..Len(s) |-> LowerChar(s[i])]

\* [a-z0-9]
SlugChar(c) == c \in Digits \/ \E i \in 1..26 : LowerCase[i] = c

RECURSIVE DropNonSlug(_)
DropNonSlug(s) ==
    IF s # <<>> /\ ~SlugChar(Head(s)) THEN DropNonSlug(Tail(s)) ELSE s

\* re.sub(r"[^a-z0-9]+", "-", text)
RECURSIVE SubDashes(_)
SubDashes(s) ==
    IF s = <<>> THEN <<>>
    ELSE IF SlugChar(Head(s)) THEN <<Head(s)>> \o SubDashes(Tail(s))
    ELSE <<"-">> \o SubDashes(DropNonSlug(s))

RECURSIVE LStripDash(_)
LStripDash(s) ==
    IF s # <<>> /\ Head(s) = "-" THEN LStripDash(Tail(s)) ELSE s

RECURSIVE RStripDash(_)
RStripDash(s) ==
    IF s # <<>> /\ s[Len(s)] = "-"
    THEN RStripDash(SubSeq(s, 1, Len(s) - 1))
    ELSE s

\* _slugify(text)
Slugify_noStrip(text) == SubDashes(Lower(text))
Slugify(text) == RStripDash(LStripDash(SubDashes(Lower(text))))

\* `sub in s` of two strings
Contains(sub, s) ==
    \E i \in 0..(Len(s) - Len(sub)) : SubSeq(s, i + 1, i + Len(sub)) = sub

\* s.startswith(p)
StartsWith(s, p) == Len(p) <= Len(s) /\ SubSeq(s, 1, Len(p)) = p

(***************************************************************************)
(* Trust policy: built-in defaults and config/allowlists.json.  A dict is  *)
(* the sequence of its [k, v] entries in insertion order.                  *)
(***************************************************************************)
DEFAULT_ALLOW_MANUFACTURERS ==
    <<
      [k |-> <<"g", "l", "o", "c", "k">>,
       v |-> <<"us.glock.com", "glock.com">>],
      [k |-> <<"s", "m", "i", "t", "h", " ", "&", " ", "w", "e", "s", "s", "o", "n">>,
       v |-> <<"www.smith-wesson.com">>],
      [k |-> <<"s", "&", "w">>,
       v |-> <<"www.smith-wesson.com">>],
      [k |-> <<"s", "i", "g", " ", "s", "a", "u", "e", "r">>,
       v |-> <<"www.sigsauer.com">>],
      [k |-> <<"s", "p", "r", "i", "n", "g", "f", "i", "e", "l", "d">>,
       v |-> <<"www.springfield-armory.com">>],
      [k |-> <<"r", "u", "g", "e", "r">>,
       v |-> <<"www.ruger.com", "ruger.com">>],
      [k |-> <<"c", "z">>,
       v |-> <<"cz-usa.com", "www.cz-usa.com", "czub.cz">>],
      [k |-> <<"b", "e", "r", "e", "t", "t", "a">>,
       v |-> <<"www.beretta.com", "www.beretta.com/en-us/">>],
      [k |-> <<"k", "i", "m", "b", "e", "r">>,
       v |-> <<"www.kimberamerica.com">>],
      [k |-> <<"w", "a", "l", "t", "h", "e", "r">>,
       v |-> <<"www.waltherarms.com", "waltherarms.com">>],
      [k |-> <<"f", "n">>,
       v |-> <<"www.fnamerica.com", "fnamerica.com">>],
      [k |-> <<"h", "e", "c", "k", "l", "e", "r", " ", "&", " ", "k", "o", "c", "h">>,
       v |-> <<"hk-usa.com", "www.hk-usa.com">>],
      [k |-> <<"t", "a", "u", "r", "u", "s">>,
       v |-> <<"www.taurususa.com">>],
      [k |-> <<"c", "a", "n", "i", "k">>,
       v |-> <<"www.canikusa.com">>],
      [k |-> <<"s", "h", "a", "d", "o", "w", " ", "s", "y", "s", "t", "e", "m", "s">>,
       v |-> <<"shadowsystemscorp.com">>],
      [k |-> <<"s", "p", "r", "i", "n", "g", "f", "i", "e", "l", "d", " ", "a", "r", "m", "o", "r", "y">>,
       v |-> <<"www.springfield-armory.com">>],
      [k |-> <<"s", "t", "o", "e", "g", "e", "r">>,
       v |-> <<"www.stoegerindustries.com">>],
      [k |-> <<"s", "a", "v", "a", "g", "e">>,
       v |-> <<"www.savagearms.com">>],
      [k |-> <<"s", "m", "i", "t", "h", " ", "a", "n", "d", " ", "w", "e", "s", "s", "o", "n">>,
       v |-> <<"www.smith-wesson.com">>]
    >>

DEFAULT_ALLOW_RETAILERS ==
    <<"www.budsgunshop.com", "www.galleryofguns.com", "www.sportsmans.com",
      "www.brownells.com", "palmettostatearmory.com", "www.cabelas.com",
      "www.academy.com", "www.turners.com", "www.basspro.com",
      "gun.deals", "www.eurooptic.com", "www.scheels.com">>

\* d[k] = v on an insertion-ordered dict
DictSet(d, k, v) ==
    IF \E i \in 1..Len(d) : d[i].k = k
    THEN [i \in 1..Len(d) |-> IF d[i].k = k THEN [k |-> k, v |-> v] ELSE d[i]]
    ELSE Append(d, [k |-> k, v |-> v])

HasKey(d, k) == \E i \in 1..Len(d) : d[i].k = k
DictGet(d, k) == d[CHOOSE i \in 1..Len(d) : d[i].k = k].v

(***************************************************************************)
(* The allowlist file: state "missing", "malformed" (not JSON),            *)
(* "notobject" (JSON, but not an object) or "object" (a JSON object); a    *)
(* key the object lacks is None.  manufacturer_domains is a dict of        *)
(* [k, v, list] (list: v is a JSON list), brand_hints a dict of            *)
(* brand -> seed_paths.  bad holds the keys of the object whose value is   *)
(* of the wrong type altogether (a JSON number).                           *)
(***************************************************************************)
MissingFile ==
    [state |-> "missing", manufacturer_domains |-> None, retailer_domains |-> None,
     brand_hints |-> None, retailer_paths |-> None, bad |-> {}]

RECURSIVE MergeManu(_, _)
MergeManu(allow, entries) ==
    IF entries = <<>> THEN allow
    ELSE LET e == Head(entries) IN
         MergeManu(IF e.list THEN DictSet(allow, Lower(e.k), e.v) ELSE allow,
                   Tail(entries))

\* _load_allowlists(): [manu, retail]
\* what the body of the try raises: json.loads on text that is not JSON,
\* .items() on a manufacturer_domains that is no dict
TryBodyRaises(f) ==
    \/ f.state = "malformed"
    \/ f.state = "object" /\ "manufacturer_domains" \in f.bad

\* `except Exception: pass`: whether an exception leaves _load_allowlists
LoadEscapes_uncaught(f) == TryBodyRaises(f)
LoadEscapes(f) == FALSE

\* the file is missing, the data is no dict, or the try body raised before
\* any assignment: the defaults stay as they are
KeepsDefaults(f) == f.state \in {"missing", "notobject"} \/ TryBodyRaises(f)

LoadAllowlists_fileOnly(f) ==
    IF KeepsDefaults(f)
    THEN [manu |-> <<>>, retail |-> <<>>]
    ELSE [manu |-> IF f.manufacturer_domains = None
                   THEN <<>>
                   ELSE MergeManu(<<>>, f.manufacturer_domains[1]),
          retail |-> IF f.retailer_domains = None \/ "retailer_domains" \in f.bad
                     THEN <<>>
                     ELSE f.retailer_domains[1]]
LoadAllowlists(f) ==
    IF KeepsDefaults(f)
    THEN [manu |-> DEFAULT_ALLOW_MANUFACTURERS, retail |-> DEFAULT_ALLOW_RETAILERS]
    ELSE [manu |-> IF f.manufacturer_domains = None
                   THEN DEFAULT_ALLOW_MANUFACTURERS
                   ELSE MergeManu(DEFAULT_ALLOW_MANUFACTURERS, f.manufacturer_domains[1]),
          retail |-> IF f.retailer_domains = None \/ "retailer_domains" \in f.bad
                     THEN DEFAULT_ALLOW_RETAILERS
                     ELSE f.retailer_domains[1]]

RECURSIVE Flatten(_)
Flatten(ss) == IF ss = <<>> THEN <<>> ELSE Head(ss) \o Flatten(Tail(ss))

\* list(dict.fromkeys(xs)): first occurrences, in order
Unique_keepAll(xs) == xs
RECURSIVE Unique(_)
Unique(xs) ==
    IF xs = <<>> THEN <<>>
    ELSE LET r == Unique(SubSeq(xs, 1, Len(xs) - 1))
             x == xs[Len(xs)]
         IN IF \E i \in 1..Len(r) : r[i] = x THEN r ELSE Append(r, x)

RECURSIVE MatchingDomains(_, _)
MatchingDomains(allow, brand_lc) ==
    IF allow = <<>> THEN <<>>
    ELSE (IF Contains(Head(allow).k, brand_lc) THEN Head(allow).v ELSE <<>>)
         \o MatchingDomains(Tail(allow), brand_lc)

\* manu_sites of image_resolver.resolve_image
ManuSites(allow, brand) == Unique(MatchingDomains(allow, Lower(brand)))

\* allow_hosts of the image search: set(allow_retail + sum(allow_manu.values(), []))
AllowHosts(p) ==
    { p.retail[i] : i \in 1..Len(p.retail) } \cup
    UNION { { p.manu[i].v[j] : j \in 1..Len(p.manu[i].v) } : i \in 1..Len(p.manu) }

(***************************************************************************)
(* The record and what resolve_image derives from it.                      *)
(***************************************************************************)
Brand(r) == Strip(OrEmpty(r.brand))
Model(r) == Strip(OrEmpty(r.model))

\* override_key / ov_key
OverrideKey(r) ==
    Slugify(Brand(r) \o <<"-">> \o Model(r) \o <<"-">> \o OrEmpty(r.caliber))

\* dest, without the images directory and the ".jpg" suffix: the slug of the
\* five fields, and the string whose sha1 digest (first ten hex digits) follows
\* it: base_query (search) / brand + model (free).  The digest itself is not
\* computed; equal strings have equal digests.
NoDest == [slug |-> <<>>, digestOf |-> <<>>]
Dest_fileAware(v, r) ==
    [slug |-> Slugify(Brand(r) \o <<"-">> \o Model(r) \o <<"-">> \o OrEmpty(r.caliber)
                      \o <<"-">> \o OrEmpty(r.sku) \o <<"-">> \o OrEmpty(r.roster_id))
              \o (IF fs.state = "absent" THEN <<>> ELSE <<"-", "1">>),
     digestOf |-> IF v = "search" THEN Brand(r) \o <<" ">> \o Model(r)
                  ELSE Brand(r) \o Model(r)]
Dest(v, r) ==
    [slug |-> Slugify(Brand(r) \o <<"-">> \o Model(r) \o <<"-">> \o OrEmpty(r.caliber)
                      \o <<"-">> \o OrEmpty(r.sku) \o <<"-">> \o OrEmpty(r.roster_id)),
     digestOf |-> IF v = "search" THEN Brand(r) \o <<" ">> \o Model(r)
                  ELSE Brand(r) \o Model(r)]

\* key of the index lookup
IndexKey(r) == Lower(Brand(r)) \o <<":", ":">> \o Lower(Model(r))

\* overrides.get(k): the URL or None
MapGet(m, k) ==
    IF \E e \in m : e.k = k THEN Some((CHOOSE e \in m : e.k = k).v) ELSE None

\* the index entry image_resolver_free.resolve_image settles on: Some(image) or None
IndexImage_scanFirst(ix, r) ==
    LET fuzzy == { i \in 1..Len(ix) :
                     /\ StartsWith(ix[i].k, Lower(Brand(r)) \o <<":", ":">>)
                     /\ Contains(Lower(Model(r)), ix[i].k) }
    IN IF fuzzy # {} THEN ix[CHOOSE i \in fuzzy : \A j \in fuzzy : i <= j].v
       ELSE None
IndexImage(ix, r) ==
    LET exact == IndexKey(r)
        fuzzy == { i \in 1..Len(ix) :
                     /\ StartsWith(ix[i].k, Lower(Brand(r)) \o <<":", ":">>)
                     /\ Contains(Lower(Model(r)), ix[i].k) }
        key == IF HasKey(ix, exact) THEN exact
               ELSE IF fuzzy # {}
                    THEN ix[CHOOSE i \in fuzzy : \A j \in fuzzy : i <= j].k
                    ELSE exact
    IN IF HasKey(ix, key) /\ DictGet(ix, key) # None
       THEN DictGet(ix, key) ELSE None

NoAccept == [n |-> 0, tier |-> "-", url |-> NoUrl]
NotReturned == [path |-> "-", url |-> NoUrl]
Unresolved == [path |-> "None", url |-> NoUrl]

(***************************************************************************)
(* Inputs of the validator harness.                                        *)
(***************************************************************************)
Shapes ==
    { <<0, 0>>, <<1200, 0>>, <<900, 1125>>, <<900, 1126>>, <<901, 1125>>,
      <<1980, 900>>, <<1981, 900>>, <<1979, 900>>, <<1200, 900>>,
      <<1200, 899>>, <<899, 1200>>, <<900, 900>>, <<899, 899>> }

Contents ==
    { [len |-> l, dec |-> d, w |-> s[1], h |-> s[2], faces |-> fc, wr |-> wr, pil |-> p] :
        l \in {MinBytes - 1, MinBytes, MinBytes + 1},
        d \in {"ok", "none", "raise"},
        s \in Shapes,
        fc \in {"none", "some", "raise"},
        wr \in {"ok", "openfail", "partial"},
        p \in {"ok", "decodefail", "savefail"} }

GoodContent ==
    [len |-> MinBytes + 1, dec |-> "ok", w |-> 1200, h |-> 900, faces |-> "none",
     wr |-> "ok", pil |-> "ok"]

FailResp == [status |-> "fail", c |-> GoodContent]

Responses == {FailResp} \cup { [status |-> "ok", c |-> c] : c \in Contents }

Variants == {"search", "free"}
Caps == [opencv : BOOLEAN, pil : BOOLEAN, key : BOOLEAN]
NoRecord == [brand |-> None, model |-> None, caliber |-> None, sku |-> None,
             roster_id |-> None]
NoResp == [status |-> "-", c |-> GoodContent]

\* One call _download_and_validate(u, dest) on a destination that is absent
\* or holds an older file.
HarnessUrl == <<"img", "u">>

\* no call of safe_goto
NoNav == [attempts |-> 0, i |-> 0, gotos |-> 0, waits |-> <<>>, last_err |-> <<>>,
          raised |-> <<>>]

\* no call of find_image_urls
NoScrape == [file |-> "-", number_of_images |-> 0, max_missed |-> 0,
             image_urls |-> <<>>, count |-> 0, missed_count |-> 0]

\* no run of the index builder
NoCrawl == [brand |-> <<>>, domain |-> <<>>, max |-> 0, urls |-> <<>>,
            candidates |-> <<>>, fetched |-> 0, out |-> <<>>, loaded |-> <<>>]

\* no batch run is in progress
NoBatch == [n |-> 0, limit |-> 0, i |-> 0, out |-> <<>>, hits |-> 0, miss |-> 0,
            state |-> "-"]

InitV ==
    /\ variant \in Variants
    /\ caps \in { k \in Caps : k.key }
    /\ fs \in {NoFile, OldFile}
    /\ pc = "v_call"
    /\ g = NoRecord /\ overrides = {} /\ index = <<>> /\ allowfile = MissingFile
    /\ tier = "-" /\ pages = <<>> /\ cands = <<>> /\ seen = {}
    /\ nreq = 0 /\ lastTier = "-" /\ accepted = NoAccept
    /\ result = NotReturned
    /\ vresp = NoResp /\ vret = "-"
    /\ dest = NoDest /\ dl = {} /\ batch = NoBatch
    /\ crawl = NoCrawl
    /\ nav = NoNav /\ scrape = NoScrape

Validate ==
    /\ pc = "v_call"
    /\ \E resp \in Responses :
         LET r == DownloadAndValidate(variant, caps, resp, HarnessUrl, fs) IN
           /\ vresp' = resp
           /\ vret' = r.ret
           /\ fs' = r.fs
           /\ accepted' = IF r.ret = "True"
                          THEN [n |-> 1, tier |-> "-", url |-> HarnessUrl]
                          ELSE accepted
    /\ pc' = "v_done"
    /\ nreq' = nreq + 1
    /\ UNCHANGED <<nav, scrape, crawl, variant, caps, g, overrides, index, allowfile, tier, pages, cands,
                   seen, lastTier, result, dest, dl, batch>>

NextV == Validate

SpecV == InitV /\ [][NextV]_vars

(***************************************************************************)
(* resolve_image, both variants, one action per step of its code.          *)
(***************************************************************************)
Glock == <<"G", "l", "o", "c", "k">>
UnknownCorp == <<"U", "n", "k", "n", "o", "w", "n", " ", "C", "o", "r", "p">>
M19 == <<"1", "9">>

Rec(b, m) == [brand |-> b, model |-> m, caliber |-> None, sku |-> None,
              roster_id |-> None]

Records ==
    { Rec(None, Some(M19)),
      Rec(Some(<<" ">>), Some(M19)),
      Rec(Some(Glock), None),
      Rec(Some(Glock), Some(<<>>)),
      Rec(Some(Glock), Some(<<"\t", " ">>)),
      Rec(Some(<<" ">> \o Glock), Some(M19 \o <<" ">>)),
      Rec(Some(UnknownCorp), Some(M19)) }

OvUrl == <<"img", "ov">>
IxUrl == <<"img", "ix">>

OverrideMaps ==
    { {}, { [k |-> <<"g", "l", "o", "c", "k", "-", "1", "9">>, v |-> OvUrl] } }

Indexes ==
    { <<>>,
      << [k |-> <<"g", "l", "o", "c", "k", ":", ":", "1", "9">>, v |-> Some(IxUrl)] >> }

PolicyFile ==
    [state |-> "object",
     manufacturer_domains |->
        Some(<< [k |-> <<"g", "l", "o", "c", "k">>, v |-> <<"us.glock.com">>,
                 list |-> TRUE] >>),
     retailer_domains |-> Some(<<"shop.example">>),
     brand_hints |-> Some(<< [k |-> <<"g", "l", "o", "c", "k">>,
                              v |-> <<"/p/{model}">>] >>),
     retailer_paths |-> None, bad |-> {}]

EmptyPolicyFile ==
    [state |-> "object",
     manufacturer_domains |->
        Some(<< [k |-> <<"g", "l", "o", "c", "k">>, v |-> <<>>, list |-> TRUE] >>),
     retailer_domains |-> Some(<<>>),
     brand_hints |-> None,
     retailer_paths |-> None, bad |-> {}]

AllowFiles == {MissingFile, PolicyFile, EmptyPolicyFile}

ImageNames == {"i1", "i2"}
ImageUrls == { <<"img", n>> : n \in ImageNames }

SeqsUpTo(S, n) == UNION { [1..k -> S] : k \in 0..n }

\* what a candidate URL of the pipeline may serve
PipeResponses ==
    { FailResp,
      [status |-> "ok", c |-> [GoodContent EXCEPT !.len = MinBytes - 1]],
      [status |-> "ok", c |-> GoodContent],
      [status |-> "ok", c |-> [GoodContent EXCEPT !.h = 899]],
      [status |-> "ok", c |-> [GoodContent EXCEPT !.pil = "decodefail"]] }

Init ==
    /\ variant \in Variants
    /\ caps \in { k \in Caps : variant = "free" => ~k.key }
    /\ g \in Records
    /\ overrides \in OverrideMaps
    /\ index \in IF variant = "free" THEN Indexes ELSE {<<>>}
    /\ allowfile \in AllowFiles
    /\ fs \in {NoFile, OldFile}
    /\ pc = "start"
    /\ tier = "-" /\ pages = <<>> /\ cands = <<>> /\ seen = {}
    /\ nreq = 0 /\ lastTier = "-" /\ accepted = NoAccept
    /\ result = NotReturned
    /\ vresp = NoResp /\ vret = "-"
    /\ dest = NoDest /\ dl = {} /\ batch = NoBatch
    /\ crawl = NoCrawl
    /\ nav = NoNav /\ scrape = NoScrape

\* the order of the tiers in each variant's resolve_image
AfterTier_retailFirst(v, t) ==
    IF v = "search"
    THEN CASE t = "override" -> "retail" [] t = "retail" -> "manu"
           [] t = "manu" -> "image" [] OTHER -> "return"
    ELSE CASE t = "override" -> "index" [] t = "index" -> "retail"
           [] t = "retail" -> "manu" [] OTHER -> "return"
AfterTier(v, t) ==
    IF v = "search"
    THEN CASE t = "override" -> "manu" [] t = "manu" -> "retail"
           [] t = "retail" -> "image" [] OTHER -> "return"
    ELSE CASE t = "override" -> "index" [] t = "index" -> "manu"
           [] t = "manu" -> "retail" [] OTHER -> "return"

\* where control is once the running tier has pgs pages and cds candidates left
Continue(v, t, pgs, cds) ==
    IF cds # <<>> THEN "cands"
    ELSE IF pgs # <<>> THEN "pages"
    ELSE AfterTier(v, t)

\* `(g.brand or "").strip()` empty, or the model so
MissingField_noStrip(r) == OrEmpty(r.brand) = <<>> \/ OrEmpty(r.model) = <<>>
MissingField(r) == Brand(r) = <<>> \/ Model(r) = <<>>

\* `if chosen: return dest, chosen` / `if _download_and_validate(...): return ...`
ReturnsOn_never(ret) == FALSE
ReturnsOn(ret) == ret = "True"

\* lines 290-309 (search), 137-153 (free) up to the override download
Start ==
    /\ pc = "start"
    /\ IF MissingField(g)
       THEN /\ result' = Unresolved
            /\ pc' = "done"
            /\ UNCHANGED <<tier, cands, dest>>
       ELSE LET ov == MapGet(overrides, OverrideKey(g))
                cds == IF ov = None THEN <<>> ELSE <<ov[1]>>
            IN /\ tier' = "override"
               /\ cands' = cds
               /\ pc' = Continue(variant, "override", <<>>, cds)
               /\ dest' = Dest(variant, g)
               /\ UNCHANGED result
    /\ seen' = {}
    /\ dl' = {}
    /\ UNCHANGED <<nav, scrape, crawl, variant, caps, g, overrides, index, allowfile, fs, pages, nreq,
                   lastTier, accepted, vresp, vret, batch>>

\* one iteration of _pick_first_valid's loop (search); one
\* `_download_and_validate` call of resolve_image (free)
TryCandidate ==
    /\ pc = "cands"
    /\ LET u == Head(cands)
           go == Continue(variant, tier, pages, Tail(cands))
       IN
       IF variant = "search" /\ u \in seen
       THEN /\ cands' = Tail(cands)
            /\ pc' = go
            /\ seen' = IF go = "cands" THEN seen ELSE {}
            /\ dl' = IF go \in {"cands", "pages"} THEN dl ELSE {}
            /\ UNCHANGED <<fs, nreq, lastTier, accepted, result>>
       ELSE \E resp \in PipeResponses :
              LET r == DownloadAndValidate(variant, caps, resp, u, fs) IN
                /\ nreq' = nreq + 1
                /\ lastTier' = tier
                /\ fs' = r.fs
                /\ accepted' = IF r.ret = "True" /\ accepted.n = 0
                               THEN [n |-> nreq + 1, tier |-> tier, url |-> u]
                               ELSE accepted
                /\ IF ReturnsOn(r.ret)
                   THEN /\ result' = [path |-> "dest", url |-> u]
                        /\ pc' = "done"
                        /\ seen' = {} /\ dl' = {}
                        /\ UNCHANGED cands
                   ELSE IF r.ret = "raise" /\ variant = "free"
                   THEN /\ pc' = "raised"
                        /\ seen' = {} /\ dl' = {}
                        /\ UNCHANGED <<cands, result>>
                   ELSE /\ cands' = Tail(cands)
                        /\ pc' = go
                        /\ seen' = IF variant = "search" /\ go = "cands"
                                   THEN seen \cup {u} ELSE {}
                        /\ dl' = IF go \in {"cands", "pages"} THEN dl \cup {u} ELSE {}
                        /\ UNCHANGED result
    /\ UNCHANGED <<nav, scrape, crawl, variant, caps, g, overrides, index, allowfile, tier, pages, vresp,
                   vret, dest, batch>>

\* image_resolver_free.py lines 155-167, up to the download
EnterIndex ==
    /\ pc = "index"
    /\ LET img == IndexImage(index, g)
           cds == IF img = None THEN <<>> ELSE <<img[1]>>
       IN /\ tier' = "index"
          /\ cands' = cds
          /\ pc' = Continue(variant, "index", <<>>, cds)
    /\ dl' = {}
    /\ UNCHANGED <<nav, scrape, crawl, variant, caps, g, overrides, index, allowfile, fs, pages, seen, nreq,
                   lastTier, accepted, result, vresp, vret, dest, batch>>

(***************************************************************************)
(* _bing_web_search(query, sites).  The API answers with at most MaxPages  *)
(* items, each without a url, or with a page on the first queried site or  *)
(* on a foreign host.  A page URL is <<"page", host, name>>; the results   *)
(* of one answer are distinct pages, the i-th one named by its rank i.     *)
(***************************************************************************)
WebItems(sites) ==
    { [url |-> None] } \cup
    { [url |-> Some(<<"page", h, "a">>)] : h \in {sites[1], "evil.example"} }

Ranked(items) ==
    [i \in 1..Len(items) |->
        IF items[i].url = None THEN items[i]
        ELSE [url |-> Some(<<"page", items[i].url[1][2], ToString(i)>>)]]

WebResults(sites) == { Ranked(items) : items \in SeqsUpTo(WebItems(sites), MaxPages) }

InSeq(x, xs) == \E i \in 1..Len(xs) : xs[i] = x

WebFilter_noHostCheck(items, sites) ==
    LET s == SelectSeq(items, LAMBDA it : it.url # None)
    IN [i \in 1..Len(s) |-> s[i].url[1]]
RECURSIVE WebFilter(_, _)
WebFilter(items, sites) ==
    IF items = <<>> THEN <<>>
    ELSE LET it == Head(items) IN
         (IF it.url # None /\ InSeq(it.url[1][2], sites) THEN <<it.url[1]>> ELSE <<>>)
         \o WebFilter(Tail(items), sites)

\* a call of _bing_web_search for tier t over sites
WebSearch_noKeyCheck(t, sites) ==
    /\ tier' = t
    /\ cands' = <<>>
    /\ IF sites = <<>>
       THEN /\ pages' = <<>>
            /\ pc' = Continue(variant, t, <<>>, <<>>)
            /\ UNCHANGED <<nreq, lastTier>>
       ELSE /\ nreq' = nreq + 1
            /\ lastTier' = t
            /\ \/ /\ pc' = "raised"
                  /\ pages' = <<>>
               \/ \E items \in WebResults(sites) :
                    /\ pages' = WebFilter(items, sites)
                    /\ pc' = Continue(variant, t, pages', <<>>)
WebSearch(t, sites) ==
    /\ tier' = t
    /\ cands' = <<>>
    /\ IF ~caps.key \/ sites = <<>>
       THEN /\ pages' = <<>>
            /\ pc' = Continue(variant, t, <<>>, <<>>)
            /\ UNCHANGED <<nreq, lastTier>>
       ELSE /\ nreq' = nreq + 1
            /\ lastTier' = t
            /\ \/ /\ pc' = "raised"
                  /\ pages' = <<>>
               \/ \E items \in WebResults(sites) :
                    /\ pages' = WebFilter(items, sites)
                    /\ pc' = Continue(variant, t, pages', <<>>)

\* brand_hints / retailer path templates of the free variant: its page URLs
HintPaths(f, brand) ==
    IF f.state = "object" /\ f.brand_hints # None /\ HasKey(f.brand_hints[1], Lower(brand))
    THEN DictGet(f.brand_hints[1], Lower(brand)) ELSE <<>>

FreeManuDomains(f, brand) ==
    IF /\ f.state = "object" /\ f.manufacturer_domains # None
       /\ HasKey(f.manufacturer_domains[1], Lower(brand))
    THEN DictGet(f.manufacturer_domains[1], Lower(brand)) ELSE <<>>

FreeRetailers(f) ==
    IF f.state = "object" /\ f.retailer_domains # None
    THEN f.retailer_domains[1] ELSE <<>>

FreeRetailerPaths(f) ==
    IF f.state = "object" /\ f.retailer_paths # None
    THEN f.retailer_paths[1] ELSE <<"/product/{model}", "/shop/{model}">>

\* [urljoin("https://" + d, p) for d in ds for p in ps]
PathPages(ds, ps) ==
    Flatten([i \in 1..Len(ds) |-> [j \in 1..Len(ps) |-> <<"page", ds[i], ps[j]>>]])

\* the free variant's page list of tier t
FreePages(t) ==
    /\ tier' = t
    /\ cands' = <<>>
    /\ pages' = IF t = "manu"
                THEN PathPages(FreeManuDomains(allowfile, Brand(g)),
                               HintPaths(allowfile, Brand(g)))
                ELSE PathPages(FreeRetailers(allowfile), FreeRetailerPaths(allowfile))
    /\ pc' = Continue(variant, t, pages', <<>>)
    /\ UNCHANGED <<nreq, lastTier>>

\* lines 311-319 (search), 169-175 (free)
EnterManu ==
    /\ pc = "manu"
    /\ IF variant = "search"
       THEN WebSearch("manu", ManuSites(LoadAllowlists(allowfile).manu, Brand(g)))
       ELSE FreePages("manu")
    /\ dl' = {}
    /\ UNCHANGED <<nav, scrape, crawl, variant, caps, g, overrides, index, allowfile, fs, seen, accepted,
                   result, vresp, vret, dest, batch>>

\* lines 326-327 (search), 184-188 (free)
EnterRetail ==
    /\ pc = "retail"
    /\ IF variant = "search"
       THEN WebSearch("retail", LoadAllowlists(allowfile).retail)
       ELSE FreePages("retail")
    /\ dl' = {}
    /\ UNCHANGED <<nav, scrape, crawl, variant, caps, g, overrides, index, allowfile, fs, seen, accepted,
                   result, vresp, vret, dest, batch>>

(***************************************************************************)
(* Page extraction.  A page answers "fail" (transport error, bad status)   *)
(* or with its structured Product images and its og:image.                 *)
(***************************************************************************)
PageResponses ==
    { [status |-> "fail", jsonld |-> <<>>, og |-> None] } \cup
    { [status |-> "ok", jsonld |-> j, og |-> o] :
        j \in SeqsUpTo(ImageUrls, MaxCands),
        o \in {None} \cup { Some(u) : u \in ImageUrls } }

\* An image reference found in a page is an absolute URL <<"img", name>> or
\* a relative one <<"rel", path>>.  urllib.parse.urljoin(url, ref) keeps an
\* absolute reference and puts a relative one on the page's host.
IsAbsolute(ref) == ref[1] = "img"
UrlJoin(url, ref) == IF IsAbsolute(ref) THEN ref ELSE <<"img", url[2], ref[2]>>

\* _extract_page_image(url): the candidate list
ExtractPageImage_merged(url, resp) ==
    IF resp.status # "ok" THEN <<>>
    ELSE [i \in 1..Len(resp.jsonld) |-> UrlJoin(url, resp.jsonld[i])]
         \o (IF resp.og # None THEN <<UrlJoin(url, resp.og[1])>> ELSE <<>>)
ExtractPageImage(url, resp) ==
    IF resp.status # "ok" THEN <<>>
    ELSE IF resp.jsonld # <<>>
         THEN [i \in 1..Len(resp.jsonld) |-> UrlJoin(url, resp.jsonld[i])]
    ELSE IF resp.og # None THEN <<UrlJoin(url, resp.og[1])>>
    ELSE <<>>

\* _extract_from_page(url)[0]: one image or none, as a list; the og:image
\* content is returned as it stands in the page
ExtractFromPage(url, resp) ==
    IF resp.status # "ok" THEN <<>>
    ELSE IF resp.jsonld # <<>> THEN <<UrlJoin(url, Head(resp.jsonld))>>
    ELSE IF resp.og # None THEN <<resp.og[1]>>
    ELSE <<>>

\* one iteration of `for page_url in urls` / of the free variant's path loops,
\* up to the candidates
FetchPage ==
    /\ pc = "pages"
    /\ \E resp \in PageResponses :
         LET cds == IF variant = "search" THEN ExtractPageImage(Head(pages), resp)
                    ELSE ExtractFromPage(Head(pages), resp)
         IN /\ cands' = cds
            /\ pc' = Continue(variant, tier, Tail(pages), cds)
    /\ pages' = Tail(pages)
    /\ seen' = {}
    /\ nreq' = nreq + 1
    /\ lastTier' = tier
    /\ UNCHANGED <<nav, scrape, crawl, variant, caps, g, overrides, index, allowfile, fs, tier, accepted,
                   result, vresp, vret, dest, dl, batch>>

(***************************************************************************)
(* _bing_image_search(query, allow_hosts): at most MaxCands results, each  *)
(* with the host of its hostPageUrl ("" when it has none) and its          *)
(* contentUrl.                                                             *)
(***************************************************************************)
ImageItems(allow) ==
    { [host |-> h, url |-> u] :
        h \in {"evil.example", ""} \cup (IF allow = {} THEN {} ELSE {CHOOSE a \in allow : TRUE}),
        u \in ImageUrls }

RECURSIVE ImageFilter(_, _)
ImageFilter(items, allow) ==
    IF items = <<>> THEN <<>>
    ELSE LET it == Head(items) IN
         (IF allow # {} /\ it.host \notin allow THEN <<>> ELSE <<it.url>>)
         \o ImageFilter(Tail(items), allow)

\* lines 334-336 up to _pick_first_valid
EnterImage ==
    /\ pc = "image"
    /\ tier' = "image"
    /\ pages' = <<>>
    /\ seen' = {}
    /\ IF ~caps.key
       THEN /\ cands' = <<>>
            /\ pc' = Continue(variant, "image", <<>>, <<>>)
            /\ UNCHANGED <<nreq, lastTier>>
       ELSE /\ nreq' = nreq + 1
            /\ lastTier' = "image"
            /\ LET allow == AllowHosts(LoadAllowlists(allowfile)) IN
               \/ /\ pc' = "raised"
                  /\ cands' = <<>>
               \/ \E items \in SeqsUpTo(ImageItems(allow), MaxCands) :
                    /\ cands' = ImageFilter(items, allow)
                    /\ pc' = Continue(variant, "image", <<>>, cands')
    /\ dl' = {}
    /\ UNCHANGED <<nav, scrape, crawl, variant, caps, g, overrides, index, allowfile, fs, accepted, result,
                   vresp, vret, dest, batch>>

\* the final `return None, None`
ReturnUnresolved ==
    /\ pc = "return"
    /\ result' = Unresolved
    /\ pc' = "done"
    /\ UNCHANGED <<nav, scrape, crawl, variant, caps, g, overrides, index, allowfile, fs, tier, pages,
                   cands, seen, nreq, lastTier, accepted, vresp, vret, dest, dl,
                   batch>>

Next ==
    \/ Start
    \/ TryCandidate
    \/ EnterIndex
    \/ EnterManu
    \/ EnterRetail
    \/ FetchPage
    \/ EnterImage
    \/ ReturnUnresolved

Spec == Init /\ [][Next]_vars

(***************************************************************************)
(* Claims about resolve_image, checked under Spec.                         *)
(***************************************************************************)
\* an Optional[str] that is absent, empty or whitespace-only
Blank(x) == x = None \/ \A i \in 1..Len(x[1]) : x[1][i] \in {" ", "\t", "\n", "\r"}

\* C1: for a record whose brand or model is absent, empty or whitespace-only,
\* resolve_image (either variant) returns (None, None), issues no HTTP request
\* and writes no file.
C1_MissingFieldUnresolved ==
    (Blank(g.brand) \/ Blank(g.model))
    => /\ nreq = 0
       /\ fs.by = NoUrl
       /\ pc \in {"start", "done"}
       /\ pc = "done" => result = Unresolved

C1_Witness ==
    /\ pc = "done" /\ g.brand = Some(<<" ">>) /\ g.model = Some(M19)
    /\ result = Unresolved /\ nreq = 0

\* C2: when the override URL of the record downloads and validates,
\* resolve_image returns (destination, override URL) and that download is the
\* only request of the call.
C2_OverrideWins ==
    accepted.tier = "override"
    => /\ pc = "done"
       /\ \E e \in overrides : e.v = result.url
       /\ result.path = "dest"
       /\ accepted.url = result.url
       /\ nreq = 1
       /\ lastTier = "override"

C2_Witness ==
    /\ pc = "done" /\ accepted.tier = "override" /\ result.url = OvUrl
    /\ allowfile = PolicyFile

Rank(t) ==
    CASE t = "-" -> 0 [] t = "override" -> 1 [] t = "index" -> 2
      [] t = "manu" -> 3 [] t = "retail" -> 4 [] t = "image" -> 5

TiersOf(v) ==
    IF v = "search" THEN {"override", "manu", "retail", "image"}
    ELSE {"override", "index", "manu", "retail"}

\* C3: the tiers run in the order override, index (free variant only),
\* manufacturer, retailer, image search (search variant only): a later tier is
\* entered only when the pages and candidates of the earlier one are used up
\* and nothing has validated, every request belongs to the running tier, and no
\* request follows a validated candidate.
C3_TierOrder ==
    [][ /\ tier' # tier =>
            /\ pages = <<>> /\ cands = <<>>
            /\ Rank(tier') > Rank(tier)
            /\ accepted.n = 0
        /\ nreq' # nreq =>
            /\ lastTier' = tier'
            /\ tier' \in TiersOf(variant)
            /\ accepted.n = 0 ]_vars

C3_Witness ==
    /\ pc = "done" /\ variant = "search"
    /\ accepted.tier = "manu" /\ lastTier = "manu" /\ nreq > 2

\* C4: whatever transport failures occur, resolve_image returns normally: no
\* exception leaves it.
C4_NoExceptionEscapes == pc # "raised"

\* C5: when resolve_image returns (None, None) after exhausting all tiers, no
\* file has been written at the destination during the call.
C5_UnresolvedWritesNothing ==
    (pc = "done" /\ result = Unresolved) => fs.by = NoUrl

(***************************************************************************)
(* Claims about the validator, checked under SpecV.                        *)
(***************************************************************************)
ValidatorReturned == pc = "v_done" /\ vresp.status = "ok"

\* what the claims call "all other checks pass", stated on the content
DecodesToPhoto(c) == c.dec = "ok" /\ c.w > 0 /\ c.h > 0
LongEnough(c) == c.len >= 30000
EdgesLongEnough(c) == c.w >= 900 /\ c.h >= 900
InAspectBand(c) == 4 * c.h <= 5 * c.w /\ 5 * c.w <= 11 * c.h
NoFaceFound(c) == variant = "free" \/ c.faces # "some"
Storable(c) == c.wr = "ok" /\ (caps.pil => c.pil = "ok")

\* C6: after a validator call that rejects its candidate (returns False or
\* raises), the destination holds no bytes written by that call.
C6_RejectLeavesNoFile ==
    (pc = "v_done" /\ vret # "True") => fs.by # HarnessUrl

\* C7: a candidate that passes every check and whose bytes are written, but
\* whose re-encoding fails, is still reported as a success and the destination
\* holds the originally written bytes.
C7_ReencodeFailureIsSuccess ==
    ( /\ ValidatorReturned
      /\ LongEnough(vresp.c)
      /\ caps.opencv => ( /\ DecodesToPhoto(vresp.c)
                          /\ EdgesLongEnough(vresp.c)
                          /\ InAspectBand(vresp.c)
                          /\ NoFaceFound(vresp.c) )
      /\ vresp.c.wr = "ok"
      /\ caps.pil /\ vresp.c.pil # "ok" )
    => (vret = "True" /\ fs = [state |-> "orig", by |-> HarnessUrl])

\* C8 as stated: with all other checks passing, a candidate of exactly 30000
\* bytes is rejected and one of 30001 bytes is accepted.
C8_FloorRejectsThreshold ==
    ( /\ ValidatorReturned
      /\ caps.opencv => ( /\ DecodesToPhoto(vresp.c)
                          /\ EdgesLongEnough(vresp.c)
                          /\ InAspectBand(vresp.c)
                          /\ NoFaceFound(vresp.c) )
      /\ Storable(vresp.c) )
    => /\ vresp.c.len = 30000 => vret = "False"
       /\ vresp.c.len = 30001 => vret = "True"

\* C8 amended: with all other checks passing, a candidate of 29999 bytes is
\* rejected, and candidates of exactly 30000 bytes and of 30001 bytes are
\* accepted.
C8_FloorAcceptsThreshold ==
    ( /\ ValidatorReturned
      /\ caps.opencv => ( /\ DecodesToPhoto(vresp.c)
                          /\ EdgesLongEnough(vresp.c)
                          /\ InAspectBand(vresp.c)
                          /\ NoFaceFound(vresp.c) )
      /\ Storable(vresp.c) )
    => /\ vresp.c.len = 29999 => vret = "False"
       /\ vresp.c.len = 30000 => vret = "True"
       /\ vresp.c.len = 30001 => vret = "True"

C8_Witness ==
    /\ ValidatorReturned /\ caps.opencv /\ caps.pil
    /\ vresp.c = [GoodContent EXCEPT !.len = 30000]
    /\ vret = "True"

\* C9: with decoding available and all other checks passing, the candidate is
\* accepted exactly when 0.8 <= width/height <= 2.2, both ends included.
C9_AspectBand ==
    ( /\ ValidatorReturned /\ caps.opencv
      /\ LongEnough(vresp.c)
      /\ DecodesToPhoto(vresp.c)
      /\ EdgesLongEnough(vresp.c)
      /\ NoFaceFound(vresp.c)
      /\ Storable(vresp.c) )
    => (vret = "True" <=> InAspectBand(vresp.c))

C9_Witness ==
    /\ ValidatorReturned /\ caps.opencv
    /\ vresp.c.w = 900 /\ vresp.c.h = 1125
    /\ vret = "True"

\* C10: with decoding available, no accepted image has a shorter edge below
\* 900 pixels, and a 1200x900 image passing the other checks is accepted.
C10_MinEdge ==
    (ValidatorReturned /\ caps.opencv)
    => /\ vret = "True" => (vresp.c.w >= 900 /\ vresp.c.h >= 900)
       /\ ( /\ vresp.c.w = 1200 /\ vresp.c.h = 900
            /\ LongEnough(vresp.c) /\ vresp.c.dec = "ok"
            /\ NoFaceFound(vresp.c) /\ Storable(vresp.c) )
          => vret = "True"

C10_Witness ==
    /\ ValidatorReturned /\ caps.opencv
    /\ vresp.c.w = 1200 /\ vresp.c.h = 900
    /\ vret = "True"

(***************************************************************************)
(* Two calls of resolve_image on the same record.  Between the calls the   *)
(* override map, the index and the allowlist file may change; the file     *)
(* the first call left at the destination stays.  No search credential is  *)
(* configured here.  vret keeps the destination the first call computed.   *)
(***************************************************************************)
Mm9 == <<"9", "m", "m">>
GlockRec == Rec(Some(Glock), Some(M19))

RecordsN ==
    { GlockRec,
      [GlockRec EXCEPT !.caliber = Some(Mm9)],
      [GlockRec EXCEPT !.sku = Some(<<"A", "-", "1">>)],
      [GlockRec EXCEPT !.roster_id = Some(<<"R", " ", "7">>)],
      Rec(Some(UnknownCorp), Some(M19)),
      Rec(None, Some(M19)) }

PlainMap == { [k |-> <<"g", "l", "o", "c", "k", "-", "1", "9">>, v |-> OvUrl] }
DashMap == { [k |-> <<"g", "l", "o", "c", "k", "-", "1", "9", "-">>, v |-> OvUrl] }

OverrideMapsN ==
    { {}, PlainMap, DashMap,
      { [k |-> <<"g", "l", "o", "c", "k", "-", "1", "9", "-", "9", "m", "m">>,
         v |-> OvUrl] } }

InitN ==
    /\ variant \in Variants
    /\ caps \in { k \in Caps : ~k.key /\ k.pil /\ k.opencv }
    /\ g \in RecordsN
    /\ overrides \in OverrideMapsN
    /\ index \in IF variant = "free" THEN Indexes ELSE {<<>>}
    /\ allowfile \in AllowFiles
    /\ fs \in {NoFile, OldFile}
    /\ pc = "start"
    /\ tier = "-" /\ pages = <<>> /\ cands = <<>> /\ seen = {}
    /\ nreq = 0 /\ lastTier = "-" /\ accepted = NoAccept
    /\ result = NotReturned
    /\ vresp = NoResp /\ vret = NoDest
    /\ dest = NoDest /\ dl = {} /\ batch = NoBatch
    /\ crawl = NoCrawl
    /\ nav = NoNav /\ scrape = NoScrape

\* the caller resolves the same record again: resolve_image reloads the
\* override map, the index and the allowlists at its entry
Again ==
    /\ pc \in {"done", "raised"}
    /\ vret = NoDest /\ dest # NoDest
    /\ vret' = dest
    /\ overrides' \in OverrideMapsN
    /\ index' \in IF variant = "free" THEN Indexes ELSE {<<>>}
    /\ allowfile' \in AllowFiles
    /\ pc' = "start"
    /\ tier' = "-" /\ pages' = <<>> /\ cands' = <<>> /\ seen' = {}
    /\ nreq' = 0 /\ lastTier' = "-" /\ accepted' = NoAccept
    /\ result' = NotReturned
    /\ dest' = NoDest /\ dl' = {}
    /\ UNCHANGED <<nav, scrape, crawl, variant, caps, g, fs, vresp, batch>>

NextN ==
    \/ Next
    \/ Again

SpecN == InitN /\ [][NextN]_vars

(***************************************************************************)
(* Claims about the destination name and the override key, checked under   *)
(* SpecN.                                                                  *)
(***************************************************************************)
\* the override URL is the pending candidate, or it has been downloaded and,
\* if it validated, it is what the call returned
OverrideTaken ==
    \/ pc = "cands" /\ cands = <<OvUrl>>
    \/ /\ nreq = 1 /\ lastTier = "override"
       /\ accepted.url = OvUrl => (pc = "done" /\ result = [path |-> "dest", url |-> OvUrl])

\* C11 as stated: for the record Glock / 19 and the override map with the one
\* key "glock-19-", resolve_image finds the override (and returns it when it
\* validates) and names the destination "glock-19--<hash>.jpg".
C11_DashKeyFound ==
    (g = GlockRec /\ overrides = DashMap /\ tier = "override" /\ pc # "start")
        => /\ dest.slug = <<"g", "l", "o", "c", "k", "-", "1", "9", "-">>
           /\ OverrideTaken

\* C11, amended: for the record Glock / 19 the override key is "glock-19": the
\* override map with the key "glock-19" is found (and returned when it
\* validates), the map with the key "glock-19-" is not, and the destination
\* is named "glock-19-<hash>.jpg".
C11_PlainKeyFound ==
    (g = GlockRec /\ tier = "override" /\ pc # "start")
        => /\ dest.slug = <<"g", "l", "o", "c", "k", "-", "1", "9">>
           /\ overrides = PlainMap => OverrideTaken
           /\ overrides = DashMap => (cands = <<>> /\ nreq = 0 /\ pc # "cands")

C11_Witness ==
    /\ g = GlockRec /\ overrides = PlainMap /\ variant = "search"
    /\ pc = "done" /\ result = [path |-> "dest", url |-> OvUrl]
    /\ dest.slug = <<"g", "l", "o", "c", "k", "-", "1", "9">>

\* C12: the destination resolve_image computes depends on the record alone:
\* a second call on the same record computes the destination of the first,
\* whatever the override map, the index and the allowlists hold in either
\* call, whichever tier succeeds and whether a file is already there.
C12_SameDestination ==
    (vret # NoDest /\ dest # NoDest) => dest = vret

C12_Witness ==
    /\ vret # NoDest /\ dest = vret
    /\ fs.state # "absent"
    /\ pc = "done" /\ result.path = "dest" /\ accepted.tier = "index"

(***************************************************************************)
(* Claims about the tiers of the search variant, checked under Spec.       *)
(***************************************************************************)
\* C13: within one tier of one resolve_image call (search variant) no
\* candidate image URL is downloaded a second time, even when several result
\* pages of the tier yield the same image URL.
C13_NoRedownload ==
    [][(variant = "search" /\ pc = "cands" /\ nreq' = nreq + 1)
          => Head(cands) \notin dl]_vars

\* C15: in the search variant without a search credential, resolve_image
\* issues no request in the manufacturer, retailer and image-search tiers and
\* raises nothing; for the record of brand "Unknown Corp", which has no
\* override entry, it returns (None, None) without any request.
C15_NoKeyNoSearch ==
    (variant = "search" /\ ~caps.key)
        => /\ pc # "raised"
           /\ lastTier \in {"-", "override"}
           /\ (pc = "done" /\ g = Rec(Some(UnknownCorp), Some(M19)))
                 => (result = Unresolved /\ nreq = 0)

C15_Witness ==
    /\ variant = "search" /\ ~caps.key
    /\ g = Rec(Some(UnknownCorp), Some(M19))
    /\ tier = "image" /\ pc = "done" /\ result = Unresolved

(***************************************************************************)
(* One call _bing_image_search(query, allow_hosts) with the allow_hosts    *)
(* resolve_image passes, over allowlist files of every kind.  vresp is     *)
(* the list of results the API answered with, vret the list returned.      *)
(***************************************************************************)
\* a file that overrides every built-in manufacturer key, and the retailer
\* list, with the empty list
AllEmptyFile ==
    [state |-> "object",
     manufacturer_domains |->
        Some([i \in 1..Len(DEFAULT_ALLOW_MANUFACTURERS) |->
                [k |-> DEFAULT_ALLOW_MANUFACTURERS[i].k, v |-> <<>>, list |-> TRUE]]),
     retailer_domains |-> Some(<<>>),
     brand_hints |-> None,
     retailer_paths |-> None, bad |-> {}]

AllowFilesI == AllowFiles \cup {AllEmptyFile}

InitI ==
    /\ variant = "search"
    /\ caps \in { k \in Caps : k.pil /\ k.opencv }
    /\ allowfile \in AllowFilesI
    /\ pc = "i_call"
    /\ vresp = <<>> /\ vret = <<>>
    /\ g = NoRecord /\ overrides = {} /\ index = <<>> /\ fs = NoFile
    /\ tier = "-" /\ pages = <<>> /\ cands = <<>> /\ seen = {}
    /\ nreq = 0 /\ lastTier = "-" /\ accepted = NoAccept
    /\ result = NotReturned
    /\ dest = NoDest /\ dl = {} /\ batch = NoBatch
    /\ crawl = NoCrawl
    /\ nav = NoNav /\ scrape = NoScrape

BingImageSearch ==
    /\ pc = "i_call"
    /\ IF ~caps.key
       THEN /\ pc' = "i_done"
            /\ UNCHANGED <<vresp, vret, nreq>>
       ELSE /\ nreq' = nreq + 1
            /\ LET allow == AllowHosts(LoadAllowlists(allowfile)) IN
               \/ /\ pc' = "i_raised"
                  /\ UNCHANGED <<vresp, vret>>
               \/ \E items \in SeqsUpTo(ImageItems(allow), MaxCands) :
                    /\ vresp' = items
                    /\ vret' = ImageFilter(items, allow)
                    /\ pc' = "i_done"
    /\ UNCHANGED <<nav, scrape, crawl, variant, caps, g, overrides, index, allowfile, fs, tier, pages,
                   cands, seen, lastTier, accepted, result, dest, dl, batch>>

NextI == BingImageSearch

SpecI == InitI /\ [][NextI]_vars

\* C14: every URL the image search returns for validation comes from a
\* result whose host page host is in the union of the trust policy's hosts
\* (retailer domains and all manufacturer domains), whatever the policy,
\* the empty one included.
C14_OnlyTrustedHosts ==
    pc = "i_done" =>
        \A i \in 1..Len(vret) :
            \E j \in 1..Len(vresp) :
                /\ vresp[j].url = vret[i]
                /\ vresp[j].host \in AllowHosts(LoadAllowlists(allowfile))

(***************************************************************************)
(* integrate_images.main over an input list of n records with --limit.     *)
(* A call of resolve_image returns a path ("hit"), returns (None, None)    *)
(* ("miss") or raises, as the resolver's specification above shows it can. *)
(* out is the list of entries appended so far, by outcome; state is        *)
(* "loop", "saved" (save_json wrote out) or "crashed" (an exception left   *)
(* main, nothing was written).                                             *)
(***************************************************************************)
InitB ==
    /\ batch \in { [n |-> n, limit |-> l, i |-> 0, out |-> <<>>, hits |-> 0, miss |-> 0,
                    state |-> "loop"] : n \in 0..MaxBatch, l \in 0..MaxBatch }
    /\ variant = "search"
    /\ caps \in { k \in Caps : k.pil /\ k.opencv /\ k.key }
    /\ allowfile = MissingFile
    /\ pc = "b_main"
    /\ vresp = NoResp /\ vret = "-"
    /\ g = NoRecord /\ overrides = {} /\ index = <<>> /\ fs = NoFile
    /\ crawl = NoCrawl
    /\ nav = NoNav /\ scrape = NoScrape
    /\ tier = "-" /\ pages = <<>> /\ cands = <<>> /\ seen = {}
    /\ nreq = 0 /\ lastTier = "-" /\ accepted = NoAccept
    /\ result = NotReturned
    /\ dest = NoDest /\ dl = {}

\* `if args.limit and i >= args.limit: break`, or the list is exhausted
LoopEnds(b) == b.i >= b.n \/ (b.limit # 0 /\ b.i >= b.limit)

\* one iteration of `for i, h in enumerate(handguns)`
ProcessRecord ==
    /\ batch.state = "loop" /\ ~LoopEnds(batch)
    /\ \E outcome \in {"hit", "miss", "raise"} :
         batch' = IF outcome = "raise"
                  THEN [batch EXCEPT !.state = "crashed"]
                  ELSE [batch EXCEPT !.i = @ + 1,
                                     !.out = Append(@, outcome),
                                     !.hits = IF outcome = "hit" THEN @ + 1 ELSE @,
                                     !.miss = IF outcome = "miss" THEN @ + 1 ELSE @]
    /\ UNCHANGED <<nav, scrape, crawl, variant, caps, g, overrides, index, allowfile, fs, pc, tier, pages,
                   cands, seen, nreq, lastTier, accepted, result, vresp, vret, dest, dl>>

\* save_json(outp, out) after the loop
SaveOutput ==
    /\ batch.state = "loop" /\ LoopEnds(batch)
    /\ batch' = [batch EXCEPT !.state = "saved"]
    /\ UNCHANGED <<nav, scrape, crawl, variant, caps, g, overrides, index, allowfile, fs, pc, tier, pages,
                   cands, seen, nreq, lastTier, accepted, result, vresp, vret, dest, dl>>

NextB ==
    \/ ProcessRecord
    \/ SaveOutput

SpecB == InitB /\ [][NextB]_vars

\* number of records the run is to process
ToProcess(b) == IF b.limit # 0 /\ b.limit < b.n THEN b.limit ELSE b.n

\* C16: the batch driver survives a record whose resolution raises: the run
\* never ends without the output file, and the file written holds an entry
\* for every record it was to process.
C16_BatchSurvives ==
    /\ batch.state # "crashed"
    /\ batch.state = "saved" => Len(batch.out) = ToProcess(batch)

(***************************************************************************)
(* The trust policy of one resolve_image call: what the allowlists are     *)
(* after loading and which manufacturer and retailer domains the call      *)
(* selects for the record's brand, per variant.  vret is                   *)
(* [manu, retail, sites]: the loaded manufacturer map (search) or the      *)
(* file's (free), the retailer list, the manufacturer domains selected.    *)
(***************************************************************************)
ShopList == <<"shop.example">>

MalformedFile == [MissingFile EXCEPT !.state = "malformed"]
NotObjectFile == [MissingFile EXCEPT !.state = "notobject"]
BadManuFile ==
    [MissingFile EXCEPT !.state = "object", !.retailer_domains = Some(ShopList),
                        !.bad = {"manufacturer_domains"}]
BadRetailFile ==
    [PolicyFile EXCEPT !.retailer_domains = None, !.bad = {"retailer_domains"}]
ManuOnlyFile == [PolicyFile EXCEPT !.retailer_domains = None]
\* two keys that differ in case only, a key the defaults lack, and a key whose
\* value is a string instead of a list
CaseFile ==
    [MissingFile EXCEPT
        !.state = "object",
        !.manufacturer_domains =
            Some(<< [k |-> <<"G", "l", "o", "c", "k">>, v |-> <<"a.example">>,
                     list |-> TRUE],
                    [k |-> <<"g", "l", "o", "c", "k">>, v |-> <<"b.example">>,
                     list |-> TRUE],
                    [k |-> <<"a", "c", "m", "e">>, v |-> <<"acme.example">>,
                     list |-> TRUE],
                    [k |-> <<"r", "u", "g", "e", "r">>, v |-> <<>>, list |-> FALSE] >>)]

AllowFilesP ==
    { MissingFile, MalformedFile, NotObjectFile, PolicyFile, EmptyPolicyFile,
      BadManuFile, BadRetailFile, ManuOnlyFile, CaseFile, AllEmptyFile }

\* the files on which the free variant's lookups are well typed
WellTyped(f) ==
    /\ f.state # "notobject"
    /\ f.bad = {}
    /\ f.manufacturer_domains # None =>
          \A i \in 1..Len(f.manufacturer_domains[1]) : f.manufacturer_domains[1][i].list

BrandsP ==
    { Glock, UnknownCorp,
      <<"S", "&", "W">>,
      <<"S", "p", "r", "i", "n", "g", "f", "i", "e", "l", "d", " ",
        "A", "r", "m", "o", "r", "y">>,
      <<"A", "c", "m", "e">>,
      <<"R", "u", "g", "e", "r">> }

NoPolicy == [manu |-> <<>>, retail |-> <<>>, sites |-> <<>>]

InitP ==
    /\ variant \in Variants
    /\ allowfile \in { f \in AllowFilesP : variant = "free" => WellTyped(f) }
    /\ g \in { Rec(Some(b), Some(M19)) : b \in BrandsP }
    /\ caps \in { k \in Caps : k.pil /\ k.opencv /\ ~k.key }
    /\ pc = "p_call"
    /\ vresp = NoResp /\ vret = NoPolicy
    /\ overrides = {} /\ index = <<>> /\ fs = NoFile
    /\ tier = "-" /\ pages = <<>> /\ cands = <<>> /\ seen = {}
    /\ nreq = 0 /\ lastTier = "-" /\ accepted = NoAccept
    /\ result = NotReturned
    /\ dest = NoDest /\ dl = {} /\ batch = NoBatch
    /\ crawl = NoCrawl
    /\ nav = NoNav /\ scrape = NoScrape

\* the manufacturer_domains object of the file as the free variant reads it
FileManu(f) ==
    IF f.state = "object" /\ f.manufacturer_domains # None
    THEN [i \in 1..Len(f.manufacturer_domains[1]) |->
            [k |-> f.manufacturer_domains[1][i].k, v |-> f.manufacturer_domains[1][i].v]]
    ELSE <<>>

\* image_resolver.py lines 290, 311-317, 326; image_resolver_free.py lines
\* 139, 170-172, 185
SelectSites ==
    /\ pc = "p_call"
    /\ IF variant = "search"
       THEN IF LoadEscapes(allowfile)
            THEN /\ pc' = "p_raised"
                 /\ UNCHANGED vret
            ELSE LET p == LoadAllowlists(allowfile) IN
                 /\ vret' = [manu |-> p.manu, retail |-> p.retail,
                             sites |-> ManuSites(p.manu, Brand(g))]
                 /\ pc' = "p_done"
       ELSE /\ vret' = [manu |-> FileManu(allowfile),
                        retail |-> FreeRetailers(allowfile),
                        sites |-> FreeManuDomains(allowfile, Brand(g))]
            /\ pc' = "p_done"
    /\ UNCHANGED <<nav, scrape, crawl, variant, caps, g, overrides, index, allowfile, fs, tier, pages,
                   cands, seen, nreq, lastTier, accepted, result, vresp, dest, dl,
                   batch>>

NextP == SelectSites

SpecP == InitP /\ [][NextP]_vars

(***************************************************************************)
(* Claims about the trust policy, checked under SpecP.                     *)
(***************************************************************************)
PolicyLoaded == variant = "search" /\ pc \in {"p_done", "p_raised"}

FileEntries ==
    IF allowfile.state = "object" /\ allowfile.manufacturer_domains # None
    THEN { e \in { allowfile.manufacturer_domains[1][i] :
                      i \in 1..Len(allowfile.manufacturer_domains[1]) } : e.list }
    ELSE {}

\* the file has a retailer_domains list
FileRetailers ==
    /\ allowfile.state = "object"
    /\ allowfile.retailer_domains # None
    /\ "retailer_domains" \notin allowfile.bad

\* built-in keys the file does not override keep their built-in list
DefaultsKept ==
    \A i \in 1..Len(DEFAULT_ALLOW_MANUFACTURERS) :
        LET d == DEFAULT_ALLOW_MANUFACTURERS[i] IN
        (\A e \in FileEntries : Lower(e.k) # d.k)
            => (HasKey(vret.manu, d.k) /\ DictGet(vret.manu, d.k) = d.v)

\* C18 as stated: after loading with an override file, every file key with a
\* list value maps (lowercased) to exactly the file's list, every built-in key
\* absent from the file keeps its built-in list, and a retailer_domains list
\* in the file is the retailer list.
C18_FileReplacesKeys ==
    (PolicyLoaded /\ pc = "p_done" /\ allowfile.state = "object")
        => /\ \A e \in FileEntries :
                 HasKey(vret.manu, Lower(e.k)) /\ DictGet(vret.manu, Lower(e.k)) = e.v
           /\ DefaultsKept
           /\ FileRetailers => vret.retail = allowfile.retailer_domains[1]

\* position of the last list-valued entry of the file whose key lowercases to k
LastEntry(k) ==
    LET m == allowfile.manufacturer_domains[1]
        S == { i \in 1..Len(m) : m[i].list /\ Lower(m[i].k) = k }
    IN m[CHOOSE i \in S : \A j \in S : j <= i]

\* C18, amended: after loading with an override file whose manufacturer_domains,
\* if present, is an object, every file key with a list value maps
\* (lowercased) to exactly the list of the last file key with that lowercase
\* form, every built-in key absent from the file keeps its built-in list, and
\* a retailer_domains list in the file is the retailer list; when
\* manufacturer_domains is of another type, both stay the built-in defaults.
C18_LastFileKeyReplaces ==
    (PolicyLoaded /\ pc = "p_done" /\ allowfile.state = "object")
        => IF "manufacturer_domains" \in allowfile.bad
           THEN /\ vret.manu = DEFAULT_ALLOW_MANUFACTURERS
                /\ vret.retail = DEFAULT_ALLOW_RETAILERS
           ELSE /\ \A e \in FileEntries :
                      /\ HasKey(vret.manu, Lower(e.k))
                      /\ DictGet(vret.manu, Lower(e.k)) = LastEntry(Lower(e.k)).v
                /\ DefaultsKept
                /\ FileRetailers => vret.retail = allowfile.retailer_domains[1]

C18_Witness ==
    /\ PolicyLoaded /\ pc = "p_done" /\ allowfile = CaseFile
    /\ DictGet(vret.manu, <<"g", "l", "o", "c", "k">>) = <<"b.example">>
    /\ DictGet(vret.manu, <<"r", "u", "g", "e", "r">>) = <<"www.ruger.com", "ruger.com">>
    /\ HasKey(vret.manu, <<"a", "c", "m", "e">>)

\* indices of the policy keys that are substrings of the lowercased brand
MatchingKeys ==
    { a \in 1..Len(vret.manu) : Contains(vret.manu[a].k, Lower(Brand(g))) }

\* where domain d occurs in the lists of the matching keys: <<key, position>>
Occ(d) ==
    { p \in UNION { { <<a, b>> : b \in 1..Len(vret.manu[a].v) } : a \in MatchingKeys } :
        vret.manu[p[1]].v[p[2]] = d }

Before(p, q) == p[1] < q[1] \/ (p[1] = q[1] /\ p[2] < q[2])

\* the site list is the duplicate-free, order-preserving concatenation of the
\* matching keys' lists
SitesAreMatchingUnion ==
    /\ \A a \in MatchingKeys : \A b \in 1..Len(vret.manu[a].v) :
          \E i \in 1..Len(vret.sites) : vret.sites[i] = vret.manu[a].v[b]
    /\ \A i \in 1..Len(vret.sites) : Occ(vret.sites[i]) # {}
    /\ \A i, j \in 1..Len(vret.sites) :
          i < j => /\ vret.sites[i] # vret.sites[j]
                   /\ \E p \in Occ(vret.sites[i]) :
                         \A q \in Occ(vret.sites[j]) : Before(p, q)

\* C19 as stated: the manufacturer site list is the duplicate-free,
\* order-preserving concatenation of the lists of the matching keys, and it
\* holds no domain of a non-matching key.
C19_NoDomainOfNonMatchingKey ==
    (PolicyLoaded /\ pc = "p_done")
        => /\ SitesAreMatchingUnion
           /\ \A a \in (1..Len(vret.manu)) \ MatchingKeys :
                 \A b \in 1..Len(vret.manu[a].v) :
                    \A i \in 1..Len(vret.sites) : vret.sites[i] # vret.manu[a].v[b]

\* C19, amended: the manufacturer site list is the duplicate-free,
\* order-preserving concatenation of the lists of the matching keys: it holds
\* every domain of every matching key, only domains of matching keys (a
\* domain that a non-matching key lists as well is not excluded), and no
\* domain twice.
C19_SitesOfMatchingKeys ==
    (PolicyLoaded /\ pc = "p_done") => SitesAreMatchingUnion

C19_Witness ==
    /\ PolicyLoaded /\ pc = "p_done" /\ allowfile = MissingFile
    /\ Cardinality(MatchingKeys) = 2
    /\ vret.sites = <<"www.springfield-armory.com">>

\* C20: the free variant selects the domains the search variant selects: its
\* manufacturer domains are, as a set, the substring-matched union over the
\* defaults merged with the file, and its retailer domains the merged list.
C20_FreeUsesSamePolicy ==
    (variant = "free" /\ pc = "p_done")
        => LET p == LoadAllowlists(allowfile)
               m == ManuSites(p.manu, Brand(g))
           IN /\ { vret.sites[i] : i \in 1..Len(vret.sites) } = { m[i] : i \in 1..Len(m) }
              /\ vret.retail = p.retail

(***************************************************************************)
(* More claims about the validator, checked under SpecV.                   *)
(***************************************************************************)
\* C26: in both variants, when decoding and face detection are available and
\* the detector finds at least one face in a candidate, the validator rejects
\* the candidate.
C26_FaceRejected ==
    ( /\ ValidatorReturned /\ caps.opencv
      /\ DecodesToPhoto(vresp.c) /\ vresp.c.faces = "some" )
        => vret # "True"

(***************************************************************************)
(* More claims about resolve_image, checked under Spec.                    *)
(***************************************************************************)
\* the site list the running tier of the search variant queries
SitesOf(t) ==
    IF t = "manu" THEN ManuSites(LoadAllowlists(allowfile).manu, Brand(g))
    ELSE LoadAllowlists(allowfile).retail

\* C28: in the search variant every page URL the manufacturer or retailer
\* tier hands to the page extractor has a host that is a member of the site
\* list the tier queried, and a tier whose site list is empty issues no
\* request.
C28_PagesOnQueriedSites ==
    (variant = "search" /\ tier \in {"manu", "retail"})
        => /\ \A i \in 1..Len(pages) : InSeq(pages[i][2], SitesOf(tier))
           /\ SitesOf(tier) = <<>> => lastTier # tier

C28_Witness ==
    /\ variant = "search" /\ tier = "retail" /\ pc = "pages"
    /\ Len(pages) = 2
    /\ \A i \in 1..Len(pages) : InSeq(pages[i][2], SitesOf("retail"))

\* C29: resolve_image returns (destination, URL) or (None, None), never a
\* mixed pair; when it returns a path, the path is the record's destination,
\* the URL is the last candidate downloaded in the call and the file at the
\* destination was written from that candidate.
C29_ResultPair ==
    pc = "done"
        => \/ result = Unresolved
           \/ /\ result.path = "dest" /\ result.url # NoUrl
              /\ dest # NoDest
              /\ accepted.url = result.url /\ accepted.n = nreq
              /\ fs.by = result.url /\ fs.state \in {"orig", "jpeg"}

C29_Witness ==
    /\ pc = "done" /\ result.path = "dest"
    /\ nreq >= 3 /\ accepted.n = nreq
    /\ fs.by = result.url

(***************************************************************************)
(* Two calls of _download_and_validate on the same destination: the second *)
(* call downloads the bytes the first one downloaded, finds at the         *)
(* destination whatever the first call left there, and its write to the    *)
(* destination succeeds or fails as the file system decides then.          *)
(***************************************************************************)
ValidateAgain ==
    /\ pc = "v_done" /\ vresp.status = "ok"
    /\ \E wr \in {"ok", "openfail", "partial"} :
         LET resp == [vresp EXCEPT !.c.wr = wr]
             r == DownloadAndValidate(variant, caps, resp, HarnessUrl, fs)
         IN /\ vresp' = resp
            /\ vret' = r.ret
            /\ fs' = r.fs
            /\ accepted' = IF r.ret = "True" /\ accepted.n = 0
                           THEN [n |-> nreq + 1, tier |-> "-", url |-> HarnessUrl]
                           ELSE accepted
    /\ pc' = "v_again"
    /\ nreq' = nreq + 1
    /\ UNCHANGED <<nav, scrape, crawl, variant, caps, g, overrides, index, allowfile, tier, pages, cands,
                   seen, lastTier, result, dest, dl, batch>>

NextW ==
    \/ Validate
    \/ ValidateAgain

SpecW == InitV /\ [][NextW]_vars

\* C27 as stated: two validations of identical bytes under the same
\* capabilities give the same outcome, whatever the destination, the file
\* already there and the validations before.
C27_SameBytesSameOutcome ==
    [][(pc = "v_done" /\ pc' = "v_again") => vret' = vret]_vars

\* C27, amended: two validations of identical bytes under the same
\* capabilities whose writes to the destination fare alike (both succeed, or
\* both fail in the same way) give the same outcome, whatever file is already
\* at the destination and whatever validations came before; a write that
\* fails makes the validator return False for bytes it otherwise accepts.
C27_SameBytesSameWrite ==
    [][(pc = "v_done" /\ pc' = "v_again" /\ vresp'.c.wr = vresp.c.wr)
          => vret' = vret]_vars

C27_Witness ==
    /\ pc = "v_again" /\ nreq = 2
    /\ accepted.n = 1 /\ vret = "True"
    /\ fs.state = "jpeg"

(***************************************************************************)
(* One call of the page extractor of either variant on the page            *)
(* HarnessPage, whose structured Product images and og:image are absolute  *)
(* or relative references.  vresp is what the page answered, vret the      *)
(* candidate list returned.                                                *)
(***************************************************************************)
HarnessPage == <<"page", "us.glock.com", "a">>
RelRef == <<"rel", "r1">>
Refs == ImageUrls \cup {RelRef}

PageResponsesE ==
    { [status |-> "fail", jsonld |-> <<>>, og |-> None] } \cup
    { [status |-> "ok", jsonld |-> j, og |-> o] :
        j \in SeqsUpTo(Refs, MaxCands),
        o \in {None} \cup { Some(u) : u \in Refs } }

NoPage == [status |-> "-", jsonld |-> <<>>, og |-> None]

InitE ==
    /\ variant \in Variants
    /\ caps \in { k \in Caps : k.pil /\ k.opencv /\ ~k.key }
    /\ pc = "e_call"
    /\ vresp = NoPage /\ vret = <<>>
    /\ g = NoRecord /\ overrides = {} /\ index = <<>> /\ allowfile = MissingFile
    /\ fs = NoFile
    /\ tier = "-" /\ pages = <<>> /\ cands = <<>> /\ seen = {}
    /\ nreq = 0 /\ lastTier = "-" /\ accepted = NoAccept
    /\ result = NotReturned
    /\ dest = NoDest /\ dl = {} /\ batch = NoBatch
    /\ crawl = NoCrawl
    /\ nav = NoNav /\ scrape = NoScrape

ExtractPage ==
    /\ pc = "e_call"
    /\ \E resp \in PageResponsesE :
         /\ vresp' = resp
         /\ vret' = IF variant = "search" THEN ExtractPageImage(HarnessPage, resp)
                    ELSE ExtractFromPage(HarnessPage, resp)
    /\ pc' = "e_done"
    /\ nreq' = nreq + 1
    /\ UNCHANGED <<nav, scrape, crawl, variant, caps, g, overrides, index, allowfile, fs, tier, pages,
                   cands, seen, lastTier, accepted, result, dest, dl, batch>>

NextE == ExtractPage

SpecE == InitE /\ [][NextE]_vars

\* the structured images of the page answered, resolved against the page URL
Structured == [i \in 1..Len(vresp.jsonld) |-> UrlJoin(HarnessPage, vresp.jsonld[i])]

ElemsOf(xs) == { xs[i] : i \in 1..Len(xs) }

\* without structured images, at most the og:image is returned
OnlyOgFallback ==
    (vresp.jsonld = <<>> /\ vret # <<>>)
        => /\ Len(vret) = 1 /\ vresp.og # None
           /\ vret[1] \in {vresp.og[1], UrlJoin(HarnessPage, vresp.og[1])}

C25_CandidatesAbsolute ==
    pc = "e_done"
        => \A i \in 1..Len(vret) :
              /\ IsAbsolute(vret[i])
              /\ \E ref \in ElemsOf(vresp.jsonld) \cup ElemsOf(vresp.og) :
                    vret[i] = UrlJoin(HarnessPage, ref)

(***************************************************************************)
(* The index builder (oem_indexer.py): main crawls one allowlisted domain  *)
(* of one brand, merges the accepted pages into the index loaded from the  *)
(* index file and writes the file; then the no-search resolver looks a     *)
(* record up in it.  A crawled URL is [host, path], both strings.          *)
(***************************************************************************)
MaxPerSite == 2

Ab == <<"A", "b">>
Cd == <<"C", "d">>
DomainX == <<"x", ".", "u", "s">>
OtherHost == <<"y", ".", "u", "s">>
Pistol == <<"p", "i", "s", "t", "o", "l">>
DEFAULT_GLOBAL_KEYWORDS ==
    << Pistol, <<"h", "a", "n", "d", "g", "u", "n">>,
       <<"r", "e", "v", "o", "l", "v", "e", "r">>,
       <<"s", "e", "m", "i", "-", "a", "u", "t", "o">>,
       <<"s", "e", "m", "i", " ", "a", "u", "t", "o">> >>

Url(h, p) == [host |-> h, path |-> p]
UrlText(u) == <<"h", "t", "t", "p", "s", ":", "/", "/">> \o u.host \o u.path

U1 == Url(DomainX, <<"/">> \o Pistol \o <<"/", "1">>)
U2 == Url(DomainX, <<"/", "P", "i", "s", "t", "o", "l", "/", "2">>)
U3 == Url(DomainX, <<"/", "a", "b", "/", "3">>)
UNews == Url(DomainX, <<"/", "n", "e", "w", "s">>)
UOther == Url(OtherHost, <<"/">> \o Pistol)

\* the URLs the sitemaps and seed paths of the domain yield, in order
UrlLists ==
    { <<>>,
      <<U1>>,
      <<UNews, U1, UOther, U2>>,
      <<U1, U1, U2, U3>>,
      <<U3, U2, U1, UNews>>,
      <<UOther, UNews>> }

\* the brand keys of manufacturer_domains in the allowlist file
BrandKeys == { Ab, <<" ">> \o Ab }

\* should_keep(url, brand, brand_keywords, global_keywords)
ShouldKeep(u, brand_keywords, global_keywords) ==
    LET t == Lower(UrlText(u))
    IN \/ \E i \in 1..Len(brand_keywords) : Contains(brand_keywords[i], t)
       \/ \E i \in 1..Len(global_keywords) : Contains(global_keywords[i], t)

\* the loop that fills candidates: [seen, candidates] after urls[1..n]
RECURSIVE Collect(_, _, _, _)
Collect(urls, brand, max, st) ==
    IF urls = <<>> THEN st
    ELSE LET u == Head(urls)
         IN IF u \in st.seen THEN Collect(Tail(urls), brand, max, st)
            ELSE LET cs == IF ShouldKeep(u, <<Lower(brand)>>, DEFAULT_GLOBAL_KEYWORDS)
                           THEN Append(st.candidates, u) ELSE st.candidates
                     st2 == [seen |-> st.seen \cup {u}, candidates |-> cs]
                 IN IF Len(cs) >= max THEN st2
                    ELSE Collect(Tail(urls), brand, max, st2)

\* urls = [u for u in urls if urlparse(u).netloc == domain]
SameHost(urls, domain) == SelectSeq(urls, LAMBDA u : u.host = domain)

\* candidates[:max_per_site]
ToFetch_noSlice(candidates, max) == candidates
ToFetch(candidates, max) == SubSeq(candidates, 1, MinOf(Len(candidates), max))

\* re.sub(r"\s+", " ", t)
RECURSIVE CollapseSpaces(_)
CollapseSpaces(t) ==
    IF t = <<>> THEN <<>>
    ELSE IF Head(t) \in Whitespace THEN <<" ">> \o CollapseSpaces(LStrip(t))
    ELSE <<Head(t)>> \o CollapseSpaces(Tail(t))

\* normalize_model(text)
NormalizeModel(text) == Strip(CollapseSpaces(Lower(text)))

\* key = f"{brand.lower()}::{normalize_model(name)}"
BuilderKey(brand, name) == Lower(brand) \o <<":", ":">> \o NormalizeModel(name)

\* the entry main stores for one triple of crawl_domain
Entry(brand, domain, t) ==
    [k |-> BuilderKey(brand, t.name), v |-> Some(t.image), brand |-> brand,
     name |-> t.name, page |-> t.page, domain |-> domain]

\* index[key] = entry on an insertion-ordered dict
IndexPut_keepFirst(ix, e) ==
    IF HasKey(ix, e.k) THEN ix ELSE Append(ix, e)
IndexPut(ix, e) ==
    IF HasKey(ix, e.k)
    THEN [i \in 1..Len(ix) |-> IF ix[i].k = e.k THEN e ELSE ix[i]]
    ELSE Append(ix, e)

\* the loop of main over the triples of one domain
RECURSIVE Merge(_, _, _, _)
Merge(ix, brand, domain, triples) ==
    IF triples = <<>> THEN ix
    ELSE Merge(IndexPut(ix, Entry(brand, domain, Head(triples))), brand, domain,
               Tail(triples))

N19 == <<"1", "9">>
NGen == <<"1", "9", " ", " ", "x">>
NTab == <<"1", "9", "\t", "x">>
Title == <<"1", "9", " ", "X">>
NamesX == { N19, NGen, NTab }
LdImg == <<"img", "ld">>
OgImg == <<"img", "og">>
OldImg == <<"img", "old">>
OlderImg == <<"img", "older">>

\* what a fetched page holds: the pair jsonld_images returns and the pair
\* og_image_and_title returns; "fail" is a status other than 200, a body
\* without <html or an exception
PageResponsesX ==
    { [status |-> "fail", ld_img |-> None, ld_name |-> None, og_img |-> None,
       og_title |-> None] } \cup
    { [status |-> "ok", ld_img |-> i, ld_name |-> n, og_img |-> o.img,
       og_title |-> o.title] :
        i \in {None, Some(LdImg)},
        n \in {None, Some(<<>>)} \cup { Some(x) : x \in NamesX },
        o \in { [img |-> None, title |-> None], [img |-> Some(OgImg), title |-> None],
                [img |-> Some(OgImg), title |-> Some(Title)] } }

NoPageX == [status |-> "-", ld_img |-> None, ld_name |-> None, og_img |-> None,
            og_title |-> None]

\* Python truth of an Optional[str]
Truthy(o) == o # None /\ o[1] # <<>>

\* the (img, name) crawl_domain has after both extractors
Extracted(resp) ==
    IF Truthy(resp.ld_img) THEN [img |-> resp.ld_img, name |-> resp.ld_name]
    ELSE [img |-> resp.og_img,
          name |-> IF ~Truthy(resp.ld_name) /\ Truthy(resp.og_title)
                   THEN resp.og_title ELSE resp.ld_name]

\* if img and name: out.append((name, img, u))
Accepts(resp) ==
    /\ resp.status = "ok"
    /\ Truthy(Extracted(resp).img)
    /\ Truthy(Extracted(resp).name)

OldEntry(k, name, img) ==
    [k |-> k, v |-> Some(img), brand |-> Ab, name |-> name,
     page |-> Url(DomainX, <<"/", "o", "l", "d">>), domain |-> DomainX]

\* contents of data/oem_image_index.json before the run
IndexesX ==
    { <<>>,
      << OldEntry(<<"a", "b", ":", ":", "1", "7">>, <<"1", "7">>, OldImg) >>,
      << OldEntry(<<"a", "b", ":", ":", "1", "9", " ", "x">>, NGen, OldImg),
         OldEntry(<<"a", "b", ":", ":", "1", "9">>, N19, OlderImg) >> }

InitX ==
    /\ index \in IndexesX
    /\ crawl \in { [brand |-> b, domain |-> DomainX, max |-> m, urls |-> us,
                    candidates |-> <<>>, fetched |-> 0, out |-> <<>>,
                    loaded |-> <<>>] :
                     b \in BrandKeys, m \in 0..MaxPerSite, us \in UrlLists }
    /\ pc = "x_main"
    /\ nav = NoNav /\ scrape = NoScrape
    /\ variant = "free"
    /\ caps \in { k \in Caps : k.pil /\ k.opencv /\ ~k.key }
    /\ vresp = NoPageX /\ vret = None
    /\ g = NoRecord /\ overrides = {} /\ allowfile = MissingFile
    /\ fs = NoFile
    /\ tier = "-" /\ pages = <<>> /\ cands = <<>> /\ seen = {}
    /\ nreq = 0 /\ lastTier = "-" /\ accepted = NoAccept
    /\ result = NotReturned
    /\ dest = NoDest /\ dl = {} /\ batch = NoBatch

\* main up to the fetch loop of crawl_domain: the index file is loaded and
\* the candidates are chosen
SelectCandidates ==
    /\ pc = "x_main"
    /\ crawl' = [crawl EXCEPT
          !.loaded = index,
          !.candidates =
              Collect(SameHost(crawl.urls, crawl.domain), crawl.brand, crawl.max,
                      [seen |-> {}, candidates |-> <<>>]).candidates]
    /\ pc' = "x_fetch"
    /\ UNCHANGED <<nav, scrape, variant, caps, g, overrides, index, allowfile, fs, tier, pages, cands,
                   seen, nreq, lastTier, accepted, result, vresp, vret, dest, dl, batch>>

\* one iteration of the fetch loop of crawl_domain
FetchCandidate ==
    /\ pc = "x_fetch"
    /\ crawl.fetched < Len(ToFetch(crawl.candidates, crawl.max))
    /\ \E resp \in PageResponsesX :
         LET u == crawl.candidates[crawl.fetched + 1]
             x == Extracted(resp)
         IN /\ vresp' = resp
            /\ crawl' = [crawl EXCEPT
                  !.fetched = @ + 1,
                  !.out = IF Accepts(resp)
                          THEN Append(@, [name |-> x.name[1], image |-> x.img[1],
                                          page |-> u])
                          ELSE @]
    /\ nreq' = nreq + 1
    /\ UNCHANGED <<nav, scrape, variant, caps, g, overrides, index, allowfile, fs, pc, tier, pages,
                   cands, seen, lastTier, accepted, result, vret, dest, dl, batch>>

\* main after crawl_domain returned: the merge loop and INDEX_PATH.write_text
WriteIndex ==
    /\ pc = "x_fetch"
    /\ crawl.fetched = Len(ToFetch(crawl.candidates, crawl.max))
    /\ index' = Merge(crawl.loaded, crawl.brand, crawl.domain, crawl.out)
    /\ pc' = "x_written"
    /\ UNCHANGED <<nav, scrape, crawl, variant, caps, g, overrides, allowfile, fs, tier, pages, cands,
                   seen, nreq, lastTier, accepted, result, vresp, vret, dest, dl, batch>>

\* the records looked up afterwards: the brand crawled or another one, a name
\* a page gave or another model
LookupRecords ==
    { Rec(Some(b), Some(m)) :
        b \in {crawl.brand, Cd},
        m \in NamesX \cup { <<"9">>, <<"z">>, Title } }

\* the index tier of image_resolver_free.resolve_image up to the download
Lookup ==
    /\ pc = "x_written"
    /\ \E r \in LookupRecords :
         /\ g' = r
         /\ vret' = IndexImage(index, r)
    /\ pc' = "x_found"
    /\ UNCHANGED <<nav, scrape, crawl, variant, caps, overrides, index, allowfile, fs, tier, pages,
                   cands, seen, nreq, lastTier, accepted, result, vresp, dest, dl, batch>>

NextX == SelectCandidates \/ FetchCandidate \/ WriteIndex \/ Lookup

SpecX == InitX /\ [][NextX]_vars

\* the lowercased brand and model of the record looked up
LookedBrand == Lower(Strip(g.brand[1]))
LookedModel == Lower(Strip(g.model[1]))
LookedKey == LookedBrand \o <<":", ":">> \o LookedModel

\* index key i starts with lowercased-brand:: and contains the lowercased model
Close(i) ==
    /\ StartsWith(index[i].k, LookedBrand \o <<":", ":">>)
    /\ Contains(LookedModel, index[i].k)

Written == pc = "x_written"

\* the key under which the i-th accepted page of this run was stored
ProducedKey(i) == BuilderKey(crawl.brand, crawl.out[i].name)
ProducedKeys == { ProducedKey(i) : i \in 1..Len(crawl.out) }
KeysOf(ix) == { ix[i].k : i \in 1..Len(ix) }

\* the persisted entry at a key is the one of the i-th accepted page
HoldsPage(e, i) ==
    /\ e.v = Some(crawl.out[i].image)
    /\ e.name = crawl.out[i].name
    /\ e.page = crawl.out[i].page
    /\ e.brand = crawl.brand /\ e.domain = crawl.domain

\* C22: after a run of the index builder the persisted index is the
\* previously persisted one updated with one entry per accepted page in
\* crawl order: a pre-existing key no accepted page produced is still there
\* with its value unchanged, a key produced in this run holds the entry of
\* the last accepted page that produced it, and there is no other key.
C22_MergedLastWins ==
    Written =>
        /\ \A j \in 1..Len(crawl.loaded) :
              crawl.loaded[j].k \notin ProducedKeys
                  => \E i \in 1..Len(index) : index[i] = crawl.loaded[j]
        /\ \A i \in 1..Len(crawl.out) :
              (\A h \in (i + 1)..Len(crawl.out) : ProducedKey(h) # ProducedKey(i))
                  => \E n \in 1..Len(index) :
                        index[n].k = ProducedKey(i) /\ HoldsPage(index[n], i)
        /\ KeysOf(index) = KeysOf(crawl.loaded) \cup ProducedKeys
        /\ \A m, n \in 1..Len(index) : index[m].k = index[n].k => m = n

C22_Witness ==
    /\ pc = "x_written"
    /\ \E i, h \in 1..Len(crawl.out) :
          /\ i < h /\ ProducedKey(i) = ProducedKey(h)
          /\ crawl.out[i].name # crawl.out[h].name
          /\ ProducedKey(i) \in KeysOf(crawl.loaded)
    /\ \E j \in 1..Len(crawl.loaded) : crawl.loaded[j].k \notin ProducedKeys

\* an image reference, a name the extractors find in a page
HasImage(resp) == resp.status = "ok" /\ (Truthy(resp.ld_img) \/ Truthy(resp.og_img))
HasName(resp) == resp.status = "ok" /\ (Truthy(resp.ld_name) \/ Truthy(resp.og_title))

\* C23: for the domain crawled, at most max_per_site candidate pages are
\* fetched, for every max_per_site >= 0, and a step that produces an index
\* entry for a page has extracted both an image reference and a name from
\* that page.
C23_CappedAndComplete ==
    [][ /\ crawl'.fetched <= crawl'.max
        /\ nreq' <= crawl'.max
        /\ crawl'.out # crawl.out
              => /\ HasImage(vresp') /\ HasName(vresp')
                 /\ crawl'.out = Append(crawl.out,
                                        [name |-> Extracted(vresp').name[1],
                                         image |-> Extracted(vresp').img[1],
                                         page |-> crawl.candidates[crawl'.fetched]])
      ]_vars

\* the cap cut the crawl short, one page was accepted and one was refused
\* for want of a name
C23_Witness ==
    /\ pc = "x_fetch"
    /\ crawl.max >= 1 /\ crawl.fetched = crawl.max
    /\ \E i \in 1..Len(crawl.urls) :
          /\ crawl.urls[i].host = crawl.domain
          /\ ShouldKeep(crawl.urls[i], <<Lower(crawl.brand)>>, DEFAULT_GLOBAL_KEYWORDS)
          /\ \A n \in 1..Len(crawl.candidates) : crawl.candidates[n] # crawl.urls[i]
    /\ Len(crawl.out) = 1
    /\ HasImage(vresp) /\ ~HasName(vresp)

\* the record looked up is (brand b, model n) of an entry this run stored
LooksUpStored ==
    /\ pc = "x_found"
    /\ g.brand = Some(crawl.brand)
    /\ \E i \in 1..Len(crawl.out) : g.model = Some(crawl.out[i].name)

\* C30: index round trip: every entry the builder stores for allowlist brand
\* b and extracted name n is found by the resolver's exact key lookup for
\* the record (brand b, model n): the key the builder writes equals the key
\* the resolver computes, also for names with runs of whitespace, tabs or
\* newlines and brands with surrounding whitespace.
C30_RoundTrip ==
    LooksUpStored =>
        /\ IndexKey(g) = BuilderKey(crawl.brand, g.model[1])
        /\ HasKey(index, IndexKey(g))
        /\ vret = DictGet(index, BuilderKey(crawl.brand, g.model[1]))

(***************************************************************************)
(* update_handguns.safe_goto(page, url, attempts).  One attempt is the     *)
(* three awaited calls of the try body; what each of them does is an       *)
(* input.  An error is <<stage, i>>: the call that raised it in attempt i; *)
(* waits lists the arguments of page.wait_for_timeout, gotos counts the    *)
(* calls of page.goto.                                                     *)
(***************************************************************************)
MaxAttempts == 3

\* what the calls of one attempt do
AttemptOutcomes ==
    [goto : {"ok", "error"}, idle : {"ok", "timeout", "error"},
     selector : {"ok", "error"}]

\* the call of the try body that raises into `except Exception`, "-" if none:
\* the PWTimeout of the network-idle wait is caught inside
FailedStage_idleTimeoutFails(o) ==
    IF o.goto # "ok" THEN "goto"
    ELSE IF o.idle # "ok" THEN "idle"
    ELSE IF o.selector # "ok" THEN "selector"
    ELSE "-"
FailedStage(o) ==
    IF o.goto # "ok" THEN "goto"
    ELSE IF o.idle = "error" THEN "idle"
    ELSE IF o.selector # "ok" THEN "selector"
    ELSE "-"

\* 2_000 * (i + 1)
Backoff(i) == 2000 * (i + 1)

InitG ==
    /\ nav \in { [attempts |-> a, i |-> 0, gotos |-> 0, waits |-> <<>>,
                  last_err |-> None, raised |-> None] : a \in 0..MaxAttempts }
    /\ pc = "g_loop"
    /\ vresp = [goto |-> "-", idle |-> "-", selector |-> "-"] /\ vret = "-"
    /\ scrape = NoScrape /\ crawl = NoCrawl
    /\ variant = "search"
    /\ caps \in { k \in Caps : k.pil /\ k.opencv /\ k.key }
    /\ g = NoRecord /\ overrides = {} /\ index = <<>> /\ allowfile = MissingFile
    /\ fs = NoFile
    /\ tier = "-" /\ pages = <<>> /\ cands = <<>> /\ seen = {}
    /\ nreq = 0 /\ lastTier = "-" /\ accepted = NoAccept
    /\ result = NotReturned
    /\ dest = NoDest /\ dl = {} /\ batch = NoBatch

\* one iteration of the for loop: the try body and, when it raised, the
\* handler with its wait, which may itself raise (the page is closed)
Attempt ==
    /\ pc = "g_loop"
    /\ nav.i < nav.attempts
    /\ \E o \in AttemptOutcomes, w \in {"ok", "error"} :
         LET st == FailedStage(o)
         IN /\ vresp' = o
            /\ IF st = "-"
               THEN /\ nav' = [nav EXCEPT !.gotos = @ + 1]
                    /\ pc' = "g_returned"
                    /\ vret' = "-"
               ELSE /\ nav' = [nav EXCEPT
                         !.gotos = @ + 1,
                         !.last_err = Some(<<st, nav.i>>),
                         !.waits = Append(@, Backoff(nav.i)),
                         !.i = @ + 1,
                         !.raised = IF w = "ok" THEN None ELSE Some(<<"wait", nav.i>>)]
                    /\ pc' = IF w = "ok" THEN "g_loop" ELSE "g_raised"
                    /\ vret' = w
    /\ UNCHANGED <<scrape, crawl, variant, caps, g, overrides, index, allowfile, fs, tier,
                   pages, cands, seen, nreq, lastTier, accepted, result, dest, dl, batch>>

\* raise last_err if last_err else RuntimeError(...)
GiveUp ==
    /\ pc = "g_loop"
    /\ nav.i >= nav.attempts
    /\ nav' = [nav EXCEPT !.raised = IF nav.last_err # None THEN nav.last_err
                                     ELSE Some(<<"RuntimeError", 0>>)]
    /\ pc' = "g_raised"
    /\ UNCHANGED <<scrape, crawl, variant, caps, g, overrides, index, allowfile, fs, tier,
                   pages, cands, seen, nreq, lastTier, accepted, result, vresp, vret,
                   dest, dl, batch>>

NextG == Attempt \/ GiveUp

SpecG == InitG /\ [][NextG]_vars

\* navigation and the table-selector wait of the attempt just made both
\* succeeded, the network-idle wait ended or timed out
AttemptSucceeded(o) == o.goto = "ok" /\ o.idle \in {"ok", "timeout"} /\ o.selector = "ok"

\* what holds of a call of safe_goto in every state: at most `attempts`
\* navigations, one wait of 2000*(i+1) ms after the i-th failed attempt
Retried(n) ==
    /\ n.gotos <= n.attempts
    /\ Len(n.waits) = n.i /\ n.i <= n.gotos
    /\ \A k \in 1..Len(n.waits) : n.waits[k] = 2000 * k

\* safe_goto raised after `attempts` failed attempts, the error of the last
\* one, or without navigating when attempts = 0
RaisedLastError(n) ==
    /\ n.i = n.attempts /\ n.gotos = n.attempts
    /\ IF n.attempts = 0 THEN n.raised = Some(<<"RuntimeError", 0>>)
       ELSE /\ n.raised = n.last_err
            /\ n.raised[1][2] = n.attempts - 1 /\ n.raised[1][1] # "wait"

\* safe_goto raised the error of the wait that followed a failed attempt
RaisedWaitError(n) ==
    /\ n.i >= 1 /\ n.gotos = n.i
    /\ n.raised = Some(<<"wait", n.i - 1>>)

\* an attempt is made in this step
Attempts == nav'.gotos = nav.gotos + 1

\* C31 as stated: safe_goto makes at most `attempts` navigation attempts,
\* returns right after the first attempt whose navigation and table-selector
\* wait both succeed (a network-idle timeout alone does not fail it), waits
\* 2000*(i+1) ms after the i-th failed attempt, and raises only after
\* `attempts` failures, the error of the last attempt; with attempts = 0 it
\* raises without navigating.
C31_RetriesThenLastError ==
    [][ /\ Retried(nav')
        /\ Attempts => (AttemptSucceeded(vresp') <=> pc' = "g_returned")
        /\ pc' = "g_returned" => Attempts /\ nav'.gotos = nav'.i + 1
        /\ pc' = "g_raised" => RaisedLastError(nav')
      ]_vars

\* C31, amended: as stated as long as every wait after a failed attempt
\* completes; when such a wait itself raises, safe_goto raises the error of
\* that wait at once, without further attempts.
C31_RetriesThenError ==
    [][ /\ Retried(nav')
        /\ Attempts => (AttemptSucceeded(vresp') <=> pc' = "g_returned")
        /\ pc' = "g_returned" => Attempts /\ nav'.gotos = nav'.i + 1
        /\ pc' = "g_raised" =>
              IF vret' = "error" THEN RaisedWaitError(nav') ELSE RaisedLastError(nav')
      ]_vars

C31_Witness ==
    /\ pc = "g_raised"
    /\ nav.attempts = 3 /\ nav.gotos = 3
    /\ nav.waits = <<2000, 4000, 6000>>
    /\ nav.raised = Some(<<"selector", 2>>)
    /\ vresp.idle = "timeout"

(***************************************************************************)
(* GoogleImageScraper.find_image_urls of GoogleImageScraper.py ("original")*)
(* and of GoogleImageScraperPatched.py ("patched").  The results page is   *)
(* an input: the thumbnails a find_elements call returns, each given by    *)
(* what clicking it does: "raise" (the click or a read raises), "url" (an  *)
(* image with a usable src shows) or "none" (no usable src).  vresp is the *)
(* thumbnail list of the running pass, vret the list returned.             *)
(***************************************************************************)
MaxImages == 2
MaxMissed == 2
MaxThumbs == 2

Clicks == {"raise", "url", "none"}
ThumbnailLists == SeqsUpTo(Clicks, MaxThumbs)
FoundUrl == <<"img", "src">>

\* the for loop of the original over thumbnails[count:], from loop state st
RECURSIVE ForThumbnails(_, _)
ForThumbnails(st, thumbs) ==
    IF thumbs = <<>> THEN st
    ELSE LET c == Head(thumbs)
             st2 == IF c = "raise" THEN [st EXCEPT !.missed_count = @ + 1]
                    ELSE IF c = "url"
                    THEN [st EXCEPT !.image_urls = Append(@, FoundUrl), !.count = @ + 1]
                    ELSE st
         IN IF st2.count >= st2.number_of_images THEN st2
            ELSE ForThumbnails(st2, Tail(thumbs))

\* thumbnails[count:]
From(thumbs, count) ==
    IF count >= Len(thumbs) THEN <<>> ELSE SubSeq(thumbs, count + 1, Len(thumbs))

\* the for loop of the patched file over all thumbnails
RECURSIVE ForThumbnailsPatched(_, _)
ForThumbnailsPatched(st, thumbs) ==
    IF thumbs = <<>> THEN st
    ELSE LET c == Head(thumbs)
         IN IF c = "raise" THEN ForThumbnailsPatched(st, Tail(thumbs))
            ELSE IF c = "none"
            THEN LET st2 == [st EXCEPT !.missed_count = @ + 1]
                 IN IF st2.missed_count > st2.max_missed THEN st2
                    ELSE ForThumbnailsPatched(st2, Tail(thumbs))
            ELSE LET st2 == [st EXCEPT !.image_urls = Append(@, FoundUrl),
                                       !.count = @ + 1]
                 IN IF st2.count >= st2.number_of_images THEN st2
                    ELSE ForThumbnailsPatched(st2, Tail(thumbs))

\* while self.number_of_images > count and missed_count < self.max_missed
WhileHolds(st) ==
    st.number_of_images > st.count /\ st.missed_count < st.max_missed

InitS ==
    /\ scrape \in { [file |-> f, number_of_images |-> n, max_missed |-> m,
                     image_urls |-> <<>>, count |-> 0, missed_count |-> 0] :
                      f \in {"original", "patched"}, n \in 0..MaxImages,
                      m \in 0..MaxMissed }
    /\ pc = "s_start"
    /\ vresp = <<>> /\ vret = <<>>
    /\ nav = NoNav /\ crawl = NoCrawl
    /\ variant = "search"
    /\ caps \in { k \in Caps : k.pil /\ k.opencv /\ k.key }
    /\ g = NoRecord /\ overrides = {} /\ index = <<>> /\ allowfile = MissingFile
    /\ fs = NoFile
    /\ tier = "-" /\ pages = <<>> /\ cands = <<>> /\ seen = {}
    /\ nreq = 0 /\ lastTier = "-" /\ accepted = NoAccept
    /\ result = NotReturned
    /\ dest = NoDest /\ dl = {} /\ batch = NoBatch

\* driver.get(self.url) and the initialisations
Open ==
    /\ pc = "s_start"
    /\ pc' = IF scrape.file = "original" THEN "s_while" ELSE "s_for"
    /\ UNCHANGED <<nav, scrape, crawl, variant, caps, g, overrides, index, allowfile, fs,
                   tier, pages, cands, seen, nreq, lastTier, accepted, result, vresp,
                   vret, dest, dl, batch>>

\* original: the while test held; find_elements and the for loop
Pass ==
    /\ pc = "s_while"
    /\ WhileHolds(scrape)
    /\ \E thumbs \in ThumbnailLists :
         /\ vresp' = thumbs
         /\ scrape' = ForThumbnails(scrape, From(thumbs, scrape.count))
    /\ pc' = "s_scroll"
    /\ UNCHANGED <<nav, crawl, variant, caps, g, overrides, index, allowfile, fs, tier,
                   pages, cands, seen, nreq, lastTier, accepted, result, vret, dest, dl,
                   batch>>

\* original: window.scrollTo and the sleep, back to the while test
Scroll ==
    /\ pc = "s_scroll"
    /\ pc' = "s_while"
    /\ UNCHANGED <<nav, scrape, crawl, variant, caps, g, overrides, index, allowfile, fs,
                   tier, pages, cands, seen, nreq, lastTier, accepted, result, vresp,
                   vret, dest, dl, batch>>

\* original: the while test failed; driver.quit() and the return
Quit ==
    /\ pc = "s_while"
    /\ ~WhileHolds(scrape)
    /\ vret' = scrape.image_urls
    /\ pc' = "s_done"
    /\ UNCHANGED <<nav, scrape, crawl, variant, caps, g, overrides, index, allowfile, fs,
                   tier, pages, cands, seen, nreq, lastTier, accepted, result, vresp,
                   dest, dl, batch>>

\* patched: find_elements once, the for loop, driver.quit() and the return
PatchedRun ==
    /\ pc = "s_for"
    /\ \E thumbs \in ThumbnailLists :
         LET st == ForThumbnailsPatched(scrape, thumbs)
         IN /\ vresp' = thumbs
            /\ scrape' = st
            /\ vret' = st.image_urls
    /\ pc' = "s_done"
    /\ UNCHANGED <<nav, crawl, variant, caps, g, overrides, index, allowfile, fs, tier,
                   pages, cands, seen, nreq, lastTier, accepted, result, dest, dl, batch>>

NextS == Open \/ Pass \/ Scroll \/ Quit \/ PatchedRun

SpecS == InitS /\ [][NextS]_vars

\* every step of find_image_urls that can be taken is taken in the end
SpecSF == SpecS /\ WF_vars(NextS)

\* C32: find_image_urls always terminates, for every sequence of pages
\* (also a results page on which no thumbnail is ever found and no click
\* raises): the loop ends once number_of_images URLs are collected or
\* max_missed misses have occurred, and the returned list holds at most
\* number_of_images URLs.
C32_Terminates ==
    /\ <>(pc = "s_done")
    /\ [](pc = "s_done" => Len(vret) <= scrape.number_of_images)

====
